---- MODULE Spec2Model ----
(***************************************************************************)
(* The tier-list page (src/src/app/page.tsx) as a state machine: the React *)
(* state of the Home component, the requests it has in flight, and the     *)
(* saved tier lists held by the server.  Every event handler, effect and   *)
(* response continuation is one action.                                    *)
(***************************************************************************)
EXTENDS Naturals, Sequences, FiniteSets, TLC

(***************************************************************************)
(* Bounds of the model (not program constants).                            *)
(***************************************************************************)
\* user and auth events in one behaviour (drag start, template choice,
\* sign-in/out, list choice, Save, Load); responses are not counted
MaxEvents == 3
\* saved tier lists the server holds
MaxLists == 2

(***************************************************************************)
(* Program constants.                                                      *)
(***************************************************************************)
\* initialTiersData, by id, in declaration order
TierIds == <<"tier-s", "tier-a", "tier-b", "tier-c", "tier-d">>
BANK_ID == "bank"
\* initialItemsData, by id, in declaration order
initialItemIds == <<"item-1", "item-2", "item-3", "item-4", "item-5">>

\* null / undefined / '' of the source
NoItem == "no-item"
NoOver == "no-over"
NoDrop == "no-drop"
NoContainer == "no-container"
NoTemplate == "no-template"
NoSession == "no-session"
NoList == 0
\* the value of the history variable lastResult after a step that answers
\* nothing
NoResult == [op |-> "none"]

\* The environment: the templates the server lists, each one's item catalog
\* in the order the item-listing route returns it, and the signed-in user.
TemplateIds == <<"tA", "tB">>
Catalog(t) == IF t = "tA" THEN <<"a-1", "a-2">> ELSE <<"b-1">>
UserId == "u1"

Range(s) == {s[i] : i \in 1..Len(s)}
ContainerIds == Range(TierIds) \cup {BANK_ID}
\* A container id that is neither a tier nor the bank (a stale reference).
StaleContainerId == "tier-x"
\* Property order of a Containers object: every constructor inserts the
\* tiers first and the bank last; a key the drag-end updater adds comes
\* after them.
KeyUniverse == TierIds \o <<BANK_ID>> \o <<StaleContainerId>>
Keys(cs) == SelectSeq(KeyUniverse, LAMBDA k : k \in DOMAIN cs)

(***************************************************************************)
(* Array helpers.  Indices are 1-based; findIndex gives 0 where JS gives   *)
(* -1.                                                                     *)
(***************************************************************************)
findIndex(seq, id) ==
  IF \E i \in 1..Len(seq) : seq[i] = id
  THEN CHOOSE i \in 1..Len(seq) : seq[i] = id /\ \A j \in 1..(i - 1) : seq[j] # id
  ELSE 0

\* seq.splice(i, 1)
spliceOut(seq, i) == SubSeq(seq, 1, i - 1) \o SubSeq(seq, i + 1, Len(seq))

\* obj[k] = v on a copy of obj
Put(cs, k, v) == [x \in (DOMAIN cs) \cup {k} |-> IF x = k THEN v ELSE cs[x]]

\* The Containers object every reset builds: tiers empty, bank = ids.
resetContainers(ids) == [k \in ContainerIds |-> IF k = BANK_ID THEN ids ELSE <<>>]

VARIABLES
  items,                \* ids of the items state, in catalog order
  containers,           \* container id -> sequence of item ids
  activeId,             \* the page's dragged item id, NoItem when null
  dndActive,            \* the item the DndContext is dragging, NoItem when none
  lastOver,             \* history: event.over when the latest step is a handleDragEnd, else NoDrop
  lastResult,           \* history: what the latest step answered, NoResult when it answered nothing
  templates,            \* ids of the templates state
  templatesPending,     \* the mount-time fetch of /api/templates is in flight
  selectedTemplate,     \* id of selectedTemplate, NoTemplate when null
  session,              \* user of the session state, NoSession when null
  loadingSession,       \* checkSession has not resolved yet
  itemFetches,          \* template id -> catalog fetches in flight
  listFetches,          \* template id -> saved-list fetches in flight
  savedLists,           \* the savedLists state: summaries, newest first
  selectedSavedListId,  \* NoList when ''
  isSavingList,
  isLoadingList,
  saveRequests,         \* POST /api/tier-lists in flight (at most one)
  loadRequests,         \* GET /api/tier-lists/:id in flight (at most one)
  toggleRequests,       \* PATCH /api/tier-lists/:id in flight
  deleteRequests,       \* DELETE /api/tier-lists/:id in flight (at most one)
  tierLists,            \* the server's tier_lists rows, oldest first
  isCreatingTemplate,
  filesToUpload,        \* names of the chosen files, <<>> when null
  creation,             \* the running handleCreateTemplate, NoCreation when none
  createdTemplates,     \* the server's count of templates created by the page
  templateItems,        \* the server's TemplateItem rows of created templates
  fileOutcomes,         \* history: what became of each file of each creation
  nEvents               \* events counted against MaxEvents

vars == <<items, containers, activeId, dndActive, lastOver, lastResult, templates, templatesPending,
          selectedTemplate, session, loadingSession, itemFetches, listFetches,
          savedLists, selectedSavedListId, isSavingList, isLoadingList,
          saveRequests, loadRequests, toggleRequests, deleteRequests,
          tierLists, isCreatingTemplate, filesToUpload, creation,
          createdTemplates, templateItems, fileOutcomes, nEvents>>

\* the state of template creation
creationVars == <<isCreatingTemplate, filesToUpload, creation,
                  createdTemplates, templateItems, fileOutcomes>>

\* no handleCreateTemplate running, no file chosen, nothing created
NoCreation == [pc |-> "none"]


Init ==
  /\ items = initialItemIds
  /\ containers = resetContainers(initialItemIds)
  /\ activeId = NoItem
  /\ dndActive = NoItem
  /\ lastOver = NoDrop
  /\ isCreatingTemplate = FALSE
  /\ filesToUpload = <<>>
  /\ creation = NoCreation
  /\ createdTemplates = 0
  /\ templateItems = {}
  /\ fileOutcomes = {}
  /\ lastResult = NoResult
  /\ toggleRequests = <<>>
  /\ deleteRequests = <<>>
  /\ templates = <<>>
  /\ templatesPending = TRUE
  /\ selectedTemplate = NoTemplate
  /\ session = NoSession
  /\ loadingSession = TRUE
  /\ itemFetches = [t \in Range(TemplateIds) |-> 0]
  /\ listFetches = [t \in Range(TemplateIds) |-> 0]
  /\ savedLists = <<>>
  /\ selectedSavedListId = NoList
  /\ isSavingList = FALSE
  /\ isLoadingList = FALSE
  /\ saveRequests = <<>>
  /\ loadRequests = <<>>
  /\ tierLists = <<>>
  /\ nEvents = 0

(***************************************************************************)
(* Drag and drop.                                                          *)
(***************************************************************************)
\* The first container, in property order, that includes the item.
findContainer(cs, itemId) ==
  LET hits == SelectSeq(Keys(cs), LAMBDA k : findIndex(cs[k], itemId) # 0)
  IN  IF hits = <<>> THEN NoContainer ELSE Head(hits)

\* scanRemove finding the item nowhere.
scanRemoveNothing(cs, itemId) == cs

\* The fallback scan of the state updater: remove the item from the first
\* container that holds it, if any.
scanRemove(cs, itemId) ==
  LET c == findContainer(cs, itemId)
  IN  IF c = NoContainer THEN cs
      ELSE Put(cs, c, spliceOut(cs[c], findIndex(cs[c], itemId)))

\* moveItem with the destination's unshift in place of its push.
moveItemPrepend(prev, activeContainerId, overContainerId, active) ==
  LET sourceItems == IF activeContainerId \in DOMAIN prev
                     THEN prev[activeContainerId] ELSE <<>>
      itemIndex == findIndex(sourceItems, active)
      removed == IF itemIndex # 0
                 THEN Put(prev, activeContainerId, spliceOut(sourceItems, itemIndex))
                 ELSE scanRemove(prev, active)
      destinationItems == IF overContainerId \in DOMAIN removed
                          THEN removed[overContainerId] ELSE <<>>
  IN  Put(removed, overContainerId, <<active>> \o destinationItems)

\* moveItem without the removal from the source container.
moveItemKeepSource(prev, activeContainerId, overContainerId, active) ==
  LET destinationItems == IF overContainerId \in DOMAIN prev
                          THEN prev[overContainerId] ELSE <<>>
  IN  Put(prev, overContainerId, Append(destinationItems, active))

\* The setContainers updater of handleDragEnd.
moveItem(prev, activeContainerId, overContainerId, active) ==
  LET sourceItems == IF activeContainerId \in DOMAIN prev
                     THEN prev[activeContainerId] ELSE <<>>
      itemIndex == findIndex(sourceItems, active)
      removed == IF itemIndex # 0
                 THEN Put(prev, activeContainerId, spliceOut(sourceItems, itemIndex))
                 ELSE scanRemove(prev, active)
      destinationItems == IF overContainerId \in DOMAIN removed
                          THEN removed[overContainerId] ELSE <<>>
  IN  Put(removed, overContainerId, Append(destinationItems, active))

\* dragEndContainers without the test of over and of active.id !== over.id.
dragEndContainersNoGuard(cs, active, over) ==
  LET activeContainerId == findContainer(cs, active)
  IN  IF activeContainerId = NoContainer THEN cs
      ELSE moveItem(cs, activeContainerId, over, active)

\* dragEndContainers without the return on an item that is in no container.
dragEndContainersNoSource(cs, active, over) ==
  IF over # NoOver /\ active # over
  THEN moveItem(cs, findContainer(cs, active), over, active)
  ELSE cs

\* The containers state after handleDragEnd({active, over}); cs is both the
\* containers of the render the handler closes over and the updater's
\* prevContainers (no other update is queued between them).
dragEndContainers(cs, active, over) ==
  IF over # NoOver /\ active # over
  THEN LET activeContainerId == findContainer(cs, active)
       IN  IF activeContainerId = NoContainer THEN cs
           ELSE moveItem(cs, activeContainerId, over, active)
  ELSE cs

\* The ids of the DraggableItems on screen: the ids of the tiers' and the
\* bank's sequences that name a loaded item.
renderedItems ==
  {id \in Range(items) : \E k \in ContainerIds \cap DOMAIN containers :
                            findIndex(containers[k], id) # 0}

\* The drop targets a DragEndEvent can carry: none, a DroppableContainer
\* (a tier or the bank), or, as far as the handler's guard goes, the
\* dragged element itself.
dropTargets(active) == {NoOver, active} \cup ContainerIds

otherVars == <<templates, templatesPending, selectedTemplate, session,
               loadingSession, itemFetches, listFetches, savedLists,
               selectedSavedListId, isSavingList, isLoadingList, saveRequests,
               loadRequests, toggleRequests, deleteRequests, tierLists,
               isCreatingTemplate, filesToUpload, creation, createdTemplates,
               templateItems, fileOutcomes>>

handleDragStart(id) ==
  /\ dndActive = NoItem
  /\ nEvents < MaxEvents
  /\ id \in renderedItems
  /\ activeId' = id
  /\ dndActive' = id
  /\ nEvents' = nEvents + 1
  /\ lastOver' = NoDrop
  /\ lastResult' = NoResult
  /\ UNCHANGED <<items, containers>>
  /\ UNCHANGED otherVars

\* handleDragEnd run on the event {active: the dragged item, over}.
dragEndEvent(over) ==
  /\ dndActive # NoItem
  /\ activeId' = NoItem
  /\ dndActive' = NoItem
  /\ containers' = dragEndContainers(containers, dndActive, over)
  /\ lastOver' = over
  /\ lastResult' = NoResult
  /\ UNCHANGED <<items, nEvents>>
  /\ UNCHANGED otherVars

\* The DndContext ends the drag over one of the page's drop targets.
handleDragEnd(over) ==
  /\ over \in dropTargets(dndActive)
  /\ dragEndEvent(over)

\* The DndContext cancels the drag (Escape, window resize, ...): it calls
\* onDragCancel, which the page does not pass, so no page state changes.
dragCancel ==
  /\ dndActive # NoItem
  /\ dndActive' = NoItem
  /\ lastOver' = NoDrop
  /\ lastResult' = NoResult
  /\ UNCHANGED <<items, containers, activeId, nEvents>>
  /\ UNCHANGED otherVars

(***************************************************************************)
(* The effects keyed on selectedTemplate and session.  They run to         *)
(* completion, in declaration order, right after the render that follows   *)
(* the state change, before any other event is handled.                    *)
(***************************************************************************)
inc(f, t) == [f EXCEPT ![t] = @ + 1]
dec(f, t) == [f EXCEPT ![t] = @ - 1]

\* loadItemsForTemplate without the reset to the static data.
loadItemsForTemplateNoReset(t) ==
  IF t = NoTemplate
  THEN UNCHANGED <<items, containers, itemFetches>>
  ELSE /\ itemFetches' = inc(itemFetches, t)
       /\ UNCHANGED <<items, containers>>

\* The "load items" effect for the new selection t: the reset to the static
\* data when t is null, else a catalog fetch is sent.
loadItemsForTemplate(t) ==
  IF t = NoTemplate
  THEN /\ items' = initialItemIds
       /\ containers' = resetContainers(initialItemIds)
       /\ UNCHANGED itemFetches
  ELSE /\ itemFetches' = inc(itemFetches, t)
       /\ UNCHANGED <<items, containers>>

\* The "saved lists" effect for the new selection t and session s; sel is
\* the selectedSavedListId the event handler itself has set.
fetchSavedLists(t, s, sel) ==
  IF t = NoTemplate \/ s = NoSession
  THEN /\ savedLists' = <<>>
       /\ selectedSavedListId' = NoList
       /\ UNCHANGED listFetches
  ELSE /\ listFetches' = inc(listFetches, t)
       /\ savedLists' = savedLists
       /\ selectedSavedListId' = sel

\* The effects that follow a render in which selectedTemplate (tChanged) or
\* session (sChanged) has a new value.
runEffects(t, s, tChanged, sChanged, sel) ==
  /\ IF tChanged THEN loadItemsForTemplate(t)
     ELSE UNCHANGED <<items, containers, itemFetches>>
  /\ IF tChanged \/ sChanged THEN fetchSavedLists(t, s, sel)
     ELSE /\ selectedSavedListId' = sel
          /\ UNCHANGED <<savedLists, listFetches>>

(***************************************************************************)
(* Templates and the item catalog.                                         *)
(***************************************************************************)
\* The mount-time fetchTemplates resolves; on an error templates stays [].
fetchTemplatesResponse(ok) ==
  /\ templatesPending
  /\ templatesPending' = FALSE
  /\ templates' = IF ok THEN TemplateIds ELSE templates
  /\ lastOver' = NoDrop
  /\ lastResult' = NoResult
  /\ UNCHANGED creationVars
  /\ UNCHANGED <<toggleRequests, deleteRequests>>
  /\ UNCHANGED <<items, containers, activeId, dndActive, selectedTemplate,
                 session, loadingSession, itemFetches, listFetches, savedLists,
                 selectedSavedListId, isSavingList, isLoadingList, saveRequests,
                 loadRequests, tierLists, nEvents>>

\* onChange of the template <select>: an option of the templates state or
\* the empty option.
selectTemplate(t) ==
  /\ nEvents < MaxEvents
  /\ t \in Range(templates) \cup {NoTemplate}
  /\ t # selectedTemplate
  /\ selectedTemplate' = t
  /\ runEffects(t, session, TRUE, FALSE, NoList)
  /\ nEvents' = nEvents + 1
  /\ lastOver' = NoDrop
  /\ lastResult' = NoResult
  /\ UNCHANGED creationVars
  /\ UNCHANGED <<toggleRequests, deleteRequests>>
  /\ UNCHANGED <<activeId, dndActive, templates, templatesPending, session,
                 loadingSession, isSavingList, isLoadingList, saveRequests,
                 loadRequests, tierLists>>

\* catalogItems with the catch block leaving the items state alone.
catalogItemsKeptOnError(t, ok) == IF ok THEN Catalog(t) ELSE items

\* The items the continuation of a catalog fetch sets: the fetched catalog,
\* or none in the catch block.
catalogItems(t, ok) == IF ok THEN Catalog(t) ELSE <<>>

\* fetchedBoard with the tiers keeping what they hold.
fetchedBoardKeepingTiers(t, ok) ==
  [items |-> catalogItems(t, ok),
   containers |-> [k \in ContainerIds |->
                     IF k = BANK_ID THEN catalogItems(t, ok) ELSE containers[k]]]

\* The items and containers the continuation sets: every tier empty and
\* the bank holding the ids in catalog order.
fetchedBoard(t, ok) ==
  [items |-> catalogItems(t, ok),
   containers |-> resetContainers(catalogItems(t, ok))]

\* A catalog fetch for template t resolves (ok) or fails; the continuation
\* applies the result whatever is selected by then.
loadItemsResponse(t, ok) ==
  /\ itemFetches[t] > 0
  /\ itemFetches' = dec(itemFetches, t)
  /\ items' = fetchedBoard(t, ok).items
  /\ containers' = fetchedBoard(t, ok).containers
  /\ lastOver' = NoDrop
  /\ lastResult' = NoResult
  /\ UNCHANGED creationVars
  /\ UNCHANGED <<toggleRequests, deleteRequests>>
  /\ UNCHANGED <<activeId, dndActive, templates, templatesPending,
                 selectedTemplate, session, loadingSession, listFetches,
                 savedLists, selectedSavedListId, isSavingList, isLoadingList,
                 saveRequests, loadRequests, tierLists, nEvents>>

(***************************************************************************)
(* The session.                                                            *)
(***************************************************************************)
\* checkSession resolves with the stored session, if any.
checkSession(s) ==
  /\ loadingSession
  /\ loadingSession' = FALSE
  /\ session' = s
  /\ runEffects(selectedTemplate, s, FALSE, s # NoSession, selectedSavedListId)
  /\ lastOver' = NoDrop
  /\ lastResult' = NoResult
  /\ UNCHANGED creationVars
  /\ UNCHANGED <<toggleRequests, deleteRequests>>
  /\ UNCHANGED <<activeId, dndActive, templates, templatesPending,
                 selectedTemplate, isSavingList, isLoadingList, saveRequests,
                 loadRequests, tierLists, nEvents>>

\* onAuthStateChange with a session (SIGNED_IN, TOKEN_REFRESHED, ...): a new
\* session object, so the effects keyed on session run again.
authSignedIn ==
  /\ nEvents < MaxEvents
  /\ session' = UserId
  /\ runEffects(selectedTemplate, UserId, FALSE, TRUE, selectedSavedListId)
  /\ nEvents' = nEvents + 1
  /\ lastOver' = NoDrop
  /\ lastResult' = NoResult
  /\ UNCHANGED creationVars
  /\ UNCHANGED <<toggleRequests, deleteRequests>>
  /\ UNCHANGED <<activeId, dndActive, templates, templatesPending,
                 selectedTemplate, loadingSession, isSavingList, isLoadingList,
                 saveRequests, loadRequests, tierLists>>

\* onAuthStateChange('SIGNED_OUT', null).
authSignedOut ==
  /\ nEvents < MaxEvents
  /\ session' = NoSession
  /\ selectedTemplate' = NoTemplate
  /\ runEffects(NoTemplate, NoSession, selectedTemplate # NoTemplate,
                session # NoSession, selectedSavedListId)
  /\ nEvents' = nEvents + 1
  /\ lastOver' = NoDrop
  /\ lastResult' = NoResult
  /\ UNCHANGED creationVars
  /\ UNCHANGED <<toggleRequests, deleteRequests>>
  /\ UNCHANGED <<activeId, dndActive, templates, templatesPending,
                 loadingSession, isSavingList, isLoadingList, saveRequests,
                 loadRequests, tierLists>>

(***************************************************************************)
(* The server's saved tier lists.  A row is [id, template_id, user_id,     *)
(* updated_at, is_public, data]; ids and updated_at are issued in          *)
(* increasing order.                                                       *)
(***************************************************************************)
\* select('id, name, template_id, updated_at, is_public')
summary(row) == [id |-> row.id, template_id |-> row.template_id,
                 updated_at |-> row.updated_at, is_public |-> row.is_public]

\* The id (and timestamp) the database gives the next row.
nextId(rows) ==
  IF rows = <<>> THEN 1
  ELSE 1 + CHOOSE m \in {rows[i].id : i \in 1..Len(rows)} :
             \A i \in 1..Len(rows) : rows[i].id <= m

\* arr.sort((a, b) => b.updated_at - a.updated_at): stable, newest first.
RECURSIVE sortByUpdatedAtDesc(_)
sortByUpdatedAtDesc(lists) ==
  IF lists = <<>> THEN <<>>
  ELSE LET rest == sortByUpdatedAtDesc(Tail(lists))
           h == Head(lists)
           before == SelectSeq(rest, LAMBDA l : l.updated_at > h.updated_at)
           after == SelectSeq(rest, LAMBDA l : ~(l.updated_at > h.updated_at))
       IN  before \o <<h>> \o after

\* listTierLists without .eq('user_id', user.id).
listTierListsOfEveryUser(u, t) ==
  LET rows == SelectSeq(tierLists, LAMBDA r : t # NoTemplate => r.template_id = t)
  IN  sortByUpdatedAtDesc([i \in 1..Len(rows) |-> summary(rows[i])])

\* GET /api/tier-lists[?template_id=t] as user u: u's rows, of template t
\* when the parameter is given.
listTierLists(u, t) ==
  LET rows == SelectSeq(tierLists, LAMBDA r :
                r.user_id = u /\ (t # NoTemplate => r.template_id = t))
  IN  sortByUpdatedAtDesc([i \in 1..Len(rows) |-> summary(rows[i])])

\* insertedRow taking user_id from the request body when it names one.
insertedRowTrustingBody(u, req) ==
  [id |-> nextId(tierLists), template_id |-> req.template_id,
   user_id |-> IF "user_id" \in DOMAIN req THEN req.user_id ELSE u,
   updated_at |-> nextId(tierLists),
   is_public |-> IF "is_public" \in DOMAIN req THEN req.is_public ELSE FALSE,
   data |-> req.data]

\* POST /api/tier-lists as user u: the row inserted.  Of the body only
\* template_id, data and is_public are used; is_public defaults to false.
insertedRow(u, req) ==
  [id |-> nextId(tierLists), template_id |-> req.template_id, user_id |-> u,
   updated_at |-> nextId(tierLists),
   is_public |-> IF "is_public" \in DOMAIN req THEN req.is_public ELSE FALSE,
   data |-> req.data]

\* GET /api/tier-lists/:id as user u: the rows with that id that u owns
\* (none: 404).
getTierList(u, id) == SelectSeq(tierLists, LAMBDA r : r.id = id /\ r.user_id = u)

\* A saved-list fetch for template t resolves.  The route answers 401 with
\* no signed-in user, so ok needs one.
fetchSavedListsResponse(t, ok) ==
  /\ listFetches[t] > 0
  /\ ok => session # NoSession
  /\ listFetches' = dec(listFetches, t)
  /\ savedLists' = IF ok THEN listTierLists(session, t) ELSE <<>>
  /\ selectedSavedListId' = IF ok THEN NoList ELSE selectedSavedListId
  /\ lastOver' = NoDrop
  /\ lastResult' = NoResult
  /\ UNCHANGED creationVars
  /\ UNCHANGED <<toggleRequests, deleteRequests>>
  /\ UNCHANGED <<items, containers, activeId, dndActive, templates,
                 templatesPending, selectedTemplate, session, loadingSession,
                 itemFetches, isSavingList, isLoadingList, saveRequests,
                 loadRequests, tierLists, nEvents>>

\* The Save / Load section is rendered.
saveLoadSection == session # NoSession /\ selectedTemplate # NoTemplate

\* onChange of the saved-list <select>.
selectSavedList(id) ==
  /\ nEvents < MaxEvents
  /\ saveLoadSection
  /\ savedLists # <<>>
  /\ id \in {savedLists[i].id : i \in 1..Len(savedLists)} \cup {NoList}
  /\ id # selectedSavedListId
  /\ selectedSavedListId' = id
  /\ nEvents' = nEvents + 1
  /\ lastOver' = NoDrop
  /\ lastResult' = NoResult
  /\ UNCHANGED creationVars
  /\ UNCHANGED <<toggleRequests, deleteRequests>>
  /\ UNCHANGED <<items, containers, activeId, dndActive, templates,
                 templatesPending, selectedTemplate, session, loadingSession,
                 itemFetches, listFetches, savedLists, isSavingList,
                 isLoadingList, saveRequests, loadRequests, tierLists>>

(***************************************************************************)
(* Saving.                                                                 *)
(***************************************************************************)
\* saveData without the test key !== BANK_ID.
saveDataWithBank(cs) == cs

\* The payload of handleSaveList: the containers without the bank.
saveData(cs) == [k \in (DOMAIN cs) \ {BANK_ID} |-> cs[k]]

\* The guard of handleSaveList: !selectedTemplate || !session?.user returns.
saveListValid == selectedTemplate # NoTemplate /\ session # NoSession

\* handleSaveList run in the current render: it returns after a toast when
\* its guard fails; else the payload is built from this render's containers
\* and selectedTemplate and the request is sent.
saveListEvent ==
  /\ IF saveListValid
     THEN /\ isSavingList' = TRUE
          /\ saveRequests' = <<[template_id |-> selectedTemplate,
                                data |-> saveData(containers)]>>
          /\ lastResult' = NoResult
     ELSE /\ UNCHANGED <<isSavingList, saveRequests>>
          /\ lastResult' = [op |-> "rejected", handler |-> "handleSaveList"]
  /\ nEvents' = nEvents + 1
  /\ lastOver' = NoDrop
  /\ UNCHANGED creationVars
  /\ UNCHANGED <<toggleRequests, deleteRequests>>
  /\ UNCHANGED <<items, containers, activeId, dndActive, templates,
                 templatesPending, selectedTemplate, session, loadingSession,
                 itemFetches, listFetches, savedLists, selectedSavedListId,
                 isLoadingList, loadRequests, tierLists>>

\* The Save button is pressed.
handleSaveList ==
  /\ nEvents < MaxEvents
  /\ Len(tierLists) < MaxLists
  /\ saveLoadSection
  /\ ~isSavingList
  /\ saveListEvent

\* withSavedList without the sort.
withSavedListUnsorted(prev, saved) == Append(prev, saved)

\* The setSavedLists updater after a save.
withSavedList(prev, saved) ==
  LET existingIndex == IF \E i \in 1..Len(prev) : prev[i].id = saved.id
                       THEN CHOOSE i \in 1..Len(prev) : prev[i].id = saved.id
                       ELSE 0
  IN  IF existingIndex > 0
      THEN sortByUpdatedAtDesc([prev EXCEPT ![existingIndex] = saved])
      ELSE sortByUpdatedAtDesc(Append(prev, saved))

\* isSavingListAfter with setIsSavingList(false) at the end of the try
\* block, which a throw skips.
isSavingListAfterTryOnly(ok) == ~ok

\* isSavingList after the continuation of a save: the finally block clears
\* it whether the request succeeded (ok) or the try block threw.
isSavingListAfter(ok) == FALSE

\* The save request resolves: the row is stored and the continuation adds
\* it (the whole row, as .insert().select() returns it) to savedLists and
\* selects it, or the request fails (401 with no
\* signed-in user, a network error) and only the busy flag is cleared.
saveListResponse(ok) ==
  /\ saveRequests # <<>>
  /\ ok => session # NoSession
  /\ saveRequests' = <<>>
  /\ isSavingList' = isSavingListAfter(ok)
  /\ IF ok
     THEN LET row == insertedRow(session, Head(saveRequests))
          IN  /\ tierLists' = Append(tierLists, row)
              /\ savedLists' = withSavedList(savedLists, row)
              /\ selectedSavedListId' = row.id
     ELSE UNCHANGED <<tierLists, savedLists, selectedSavedListId>>
  /\ lastOver' = NoDrop
  /\ lastResult' = NoResult
  /\ UNCHANGED creationVars
  /\ UNCHANGED <<toggleRequests, deleteRequests>>
  /\ UNCHANGED <<items, containers, activeId, dndActive, templates,
                 templatesPending, selectedTemplate, session, loadingSession,
                 itemFetches, listFetches, isLoadingList, loadRequests, nEvents>>

(***************************************************************************)
(* Loading.                                                                *)
(***************************************************************************)
\* loadedItemIds collecting the ids of the first tier only.
loadedItemIdsOfFirstTier(data, tierSeq) ==
  IF tierSeq # <<>> /\ Head(tierSeq) \in DOMAIN data
  THEN Range(data[Head(tierSeq)]) ELSE {}

\* The ids of the tier sequences of a loaded data object.
RECURSIVE loadedItemIds(_, _)
loadedItemIds(data, tierSeq) ==
  IF tierSeq = <<>> THEN {}
  ELSE (IF Head(tierSeq) \in DOMAIN data THEN Range(data[Head(tierSeq)]) ELSE {})
       \cup loadedItemIds(data, Tail(tierSeq))

\* loadedContainers with every item in the bank, ranked or not.
loadedContainersBankAll(data, its) ==
  [k \in ContainerIds |->
     IF k = BANK_ID THEN its
     ELSE IF k \in DOMAIN data THEN data[k] ELSE <<>>]

\* The containers handleLoadList rebuilds from the loaded data and the
\* items of the render in which Load was pressed.
loadedContainers(data, its) ==
  [k \in ContainerIds |->
     IF k = BANK_ID
     THEN SelectSeq(its, LAMBDA id : id \notin loadedItemIds(data, TierIds))
     ELSE IF k \in DOMAIN data THEN data[k] ELSE <<>>]

\* handleLoadList accepting every call.
loadListValidAlways == TRUE

\* The guard of handleLoadList: !selectedSavedListId || !session?.user
\* returns.
loadListValid == selectedSavedListId # NoList /\ session # NoSession

\* handleLoadList run in the current render: it returns after a toast when
\* its guard fails; else the request for the selected list is sent.
loadListEvent ==
  /\ IF loadListValid
     THEN /\ isLoadingList' = TRUE
          /\ loadRequests' = <<[id |-> selectedSavedListId, items |-> items]>>
          /\ lastResult' = NoResult
     ELSE /\ UNCHANGED <<isLoadingList, loadRequests>>
          /\ lastResult' = [op |-> "rejected", handler |-> "handleLoadList"]
  /\ nEvents' = nEvents + 1
  /\ lastOver' = NoDrop
  /\ UNCHANGED creationVars
  /\ UNCHANGED <<toggleRequests, deleteRequests>>
  /\ UNCHANGED <<items, containers, activeId, dndActive, templates,
                 templatesPending, selectedTemplate, session, loadingSession,
                 itemFetches, listFetches, savedLists, selectedSavedListId,
                 isSavingList, saveRequests, tierLists>>

\* The Load, Delete and visibility buttons are offered: the section is
\* rendered with a list select and the buttons are not disabled
\* (disabled={!selectedSavedListId || isLoadingList}).
listButtonsEnabled ==
  /\ saveLoadSection
  /\ savedLists # <<>>
  /\ selectedSavedListId # NoList
  /\ ~isLoadingList

\* The Load button is pressed.
handleLoadList ==
  /\ nEvents < MaxEvents
  /\ listButtonsEnabled
  /\ loadListEvent

\* loadResult with the catch block emptying the board, as the catalog
\* fetch's does.
loadResultClearedOnError(ok) ==
  IF ok
  THEN loadedContainers(Head(getTierList(session, Head(loadRequests).id)).data,
                        Head(loadRequests).items)
  ELSE resetContainers(<<>>)

\* The containers after the continuation of handleLoadList: rebuilt from
\* the row, or, when the try block throws, left as they are.
loadResult(ok) ==
  IF ok
  THEN loadedContainers(Head(getTierList(session, Head(loadRequests).id)).data,
                        Head(loadRequests).items)
  ELSE containers

\* The load request resolves: with the row, the continuation rebuilds the
\* containers; otherwise (401, 404, a network error, a row without data) it
\* only clears the busy flag.
loadListResponse(ok) ==
  /\ loadRequests # <<>>
  /\ ok => getTierList(session, Head(loadRequests).id) # <<>>
  /\ loadRequests' = <<>>
  /\ isLoadingList' = FALSE
  /\ containers' = loadResult(ok)
  /\ lastOver' = NoDrop
  /\ lastResult' = [op |-> "load", applied |-> ok]
  /\ UNCHANGED creationVars
  /\ UNCHANGED <<toggleRequests, deleteRequests>>
  /\ UNCHANGED <<items, activeId, dndActive, templates, templatesPending,
                 selectedTemplate, session, loadingSession, itemFetches,
                 listFetches, savedLists, selectedSavedListId, isSavingList,
                 saveRequests, tierLists, nEvents>>

\* Every item id the model knows.
AllItemIds == Range(initialItemIds) \cup UNION {Range(Catalog(t)) : t \in Range(TemplateIds)}

Next ==
  \/ \E id \in AllItemIds : handleDragStart(id)
  \/ \E over \in ContainerIds \cup {NoOver} \cup AllItemIds : handleDragEnd(over)
  \/ dragCancel
  \/ \E ok \in BOOLEAN : fetchTemplatesResponse(ok)
  \/ \E t \in Range(TemplateIds) \cup {NoTemplate} : selectTemplate(t)
  \/ \E t \in Range(TemplateIds), ok \in BOOLEAN : loadItemsResponse(t, ok)
  \/ \E s \in {NoSession, UserId} : checkSession(s)
  \/ authSignedIn
  \/ authSignedOut
  \/ \E t \in Range(TemplateIds), ok \in BOOLEAN : fetchSavedListsResponse(t, ok)
  \/ \E id \in 0..MaxLists : selectSavedList(id)
  \/ handleSaveList
  \/ \E ok \in BOOLEAN : saveListResponse(ok)
  \/ handleLoadList
  \/ \E ok \in BOOLEAN : loadListResponse(ok)

Spec == Init /\ [][Next]_vars
(***************************************************************************)
(* Properties.                                                             *)
(***************************************************************************)
\* How often an item id occurs in all the container sequences together.
occurrences(cs, id) ==
  Cardinality({p \in UNION {{<<k, i>> : i \in 1..Len(cs[k])} : k \in DOMAIN cs} :
                 cs[p[1]][p[2]] = id})

containedIds(cs) == UNION {Range(cs[k]) : k \in DOMAIN cs}

\* The step is handleDragEnd with event.over = over.
dropOn(over) == lastOver' = over /\ handleDragEnd(over)

\* The step is handleDragEnd with a tier or the bank as event.over, which
\* lastOver' then names.
dropOnContainer == lastOver' \in ContainerIds /\ handleDragEnd(lastOver')

\* C1: in every reachable state every loaded item id occurs in exactly one
\* container exactly once, and the containers together hold exactly the
\* loaded item ids.
C1_ExclusiveAndComplete ==
  /\ \A id \in Range(items) : occurrences(containers, id) = 1
  /\ containedIds(containers) = Range(items)

\* C2: a drop of an item of container S onto another container D removes it
\* from S, appends it to D as the last element, keeps the order of the other
\* ids of S and D and leaves every other container and the key set alone.
C2_DropMovesToEndOfDestination ==
  [][dropOnContainer
       => \A S \in ContainerIds \ {lastOver'} :
            dndActive \in Range(containers[S])
            => /\ containers'[S] = SelectSeq(containers[S], LAMBDA x : x # dndActive)
               /\ containers'[lastOver'] = Append(containers[lastOver'], dndActive)
               /\ \A k \in ContainerIds \ {S, lastOver'} : containers'[k] = containers[k]
               /\ DOMAIN containers' = DOMAIN containers]_vars

\* Scenario A has happened: item-3 was just dropped from the full bank onto
\* the empty tier-a.
C2_Witness ==
  /\ lastOver = "tier-a"
  /\ containers["tier-a"] = <<"item-3">>
  /\ containers[BANK_ID] = <<"item-1", "item-2", "item-4", "item-5">>

\* C3: a drop of an item onto the container it is in changes no container
\* sequence, the item's position included.
C3_DropOnOwnContainerChangesNothing ==
  [][(dropOnContainer /\ dndActive \in Range(containers[lastOver']))
       => containers' = containers]_vars

\* C4: a drag that ends with no drop target, or over the dragged element
\* itself, leaves the page Idle and every container sequence as it was.
C4_NoTargetOrSelfDropOnlyResets ==
  [][(dropOn(NoOver) \/ dropOn(dndActive))
       => (activeId' = NoItem /\ containers' = containers)]_vars

\* A drag has just ended outside every container and the page is Idle.
C4_Witness ==
  /\ lastOver = NoOver
  /\ activeId = NoItem
  /\ dndActive = NoItem

\* C5: a drag session that has ended, by drop or by cancel, has left the
\* page Idle: once the DndContext drags nothing, activeId is null.
C5_EndedDragIsIdle ==
  (dndActive = NoItem) => (activeId = NoItem)
\* The step is the continuation of a catalog fetch for t, resolved (ok) or
\* failed.
catalogResponse(t, ok) ==
  itemFetches[t] > 0 /\ itemFetches'[t] < itemFetches[t] /\ loadItemsResponse(t, ok)

\* C6: when the catalog fetch of a template succeeds, the state after its
\* response is applied has exactly the fetched catalog as items, every tier
\* empty and the bank holding the catalog in catalog order, whatever was
\* arranged before.
C6_CatalogResponseResetsBoard ==
  [][\A t \in Range(TemplateIds) :
       catalogResponse(t, TRUE)
       => /\ items' = Catalog(t)
          /\ DOMAIN containers' = ContainerIds
          /\ \A k \in Range(TierIds) : containers'[k] = <<>>
          /\ containers'[BANK_ID] = Catalog(t)]_vars

\* The catalog of tA has been applied: its items are loaded and all in the
\* bank.
C6_Witness ==
  /\ selectedTemplate = "tA"
  /\ itemFetches["tA"] = 0
  /\ items = Catalog("tA")
  /\ containers[BANK_ID] = Catalog("tA")
  /\ \A k \in Range(TierIds) : containers[k] = <<>>

\* C7: once every catalog response has arrived, the loaded items are those
\* of the template that is selected (or none, if its fetch failed): a stale
\* response has not overwritten them.
C7_ItemsAreOfSelectedTemplate ==
  (selectedTemplate # NoTemplate /\ \A t \in Range(TemplateIds) : itemFetches[t] = 0)
  => Range(items) \subseteq Range(Catalog(selectedTemplate))

\* C8: when the catalog fetch fails, the state after the catch block has no
\* items and every container, tiers and bank, empty; the step completes like
\* any other and the selection stays.
C8_FailedFetchEmptiesBoard ==
  [][\A t \in Range(TemplateIds) :
       catalogResponse(t, FALSE)
       => /\ items' = <<>>
          /\ DOMAIN containers' = ContainerIds
          /\ \A k \in ContainerIds : containers'[k] = <<>>
          /\ selectedTemplate' = selectedTemplate]_vars

\* A catalog fetch has failed: the board is empty.
C8_Witness ==
  /\ items = <<>>
  /\ \A k \in ContainerIds : containers[k] = <<>>

staticBoard ==
  /\ items = initialItemIds
  /\ DOMAIN containers = ContainerIds
  /\ \A k \in Range(TierIds) : containers[k] = <<>>
  /\ containers[BANK_ID] = initialItemIds

\* C9 as stated: whenever no template is selected the board is the static
\* fallback.
C9_NoTemplateMeansStaticBoard ==
  (selectedTemplate = NoTemplate) => staticBoard

\* C9 as amended: the board is the static fallback at startup and in the
\* state right after the selection goes from a template to none.
C9_ClearedSelectionResetsBoard ==
  /\ staticBoard
  /\ [][(selectedTemplate # NoTemplate /\ selectedTemplate' = NoTemplate)
          => staticBoard']_vars

\* tA was selected (its fetch is still in flight) and the selection has been
\* cleared: the board is the static fallback.
C9_Witness ==
  /\ selectedTemplate = NoTemplate
  /\ itemFetches["tA"] > 0
  /\ staticBoard

\* The step is the continuation of a load request that got its row.
loadApplied ==
  loadRequests # <<>> /\ loadRequests' = <<>> /\ loadListResponse(TRUE)

\* C10: loading a saved arrangement sets every tier to the saved sequence of
\* its id (empty without one), takes no other saved key, and sets the bank
\* to the currently loaded item ids that are in no loaded tier, in catalog
\* order.
C10_LoadRebuildsContainers ==
  [][loadApplied
       => LET data == Head(getTierList(session, Head(loadRequests).id)).data
          IN  /\ DOMAIN containers' = ContainerIds
              /\ \A k \in Range(TierIds) :
                   containers'[k] = IF k \in DOMAIN data THEN data[k] ELSE <<>>
              /\ containers'[BANK_ID] =
                   SelectSeq(items', LAMBDA id :
                     \A k \in Range(TierIds) : id \notin Range(containers'[k]))]_vars

\* The step is handleSaveList building its payload and sending the request.
saveRequested ==
  saveRequests = <<>> /\ saveRequests' # <<>> /\ handleSaveList

\* C11: the arrangement handleSaveList hands to the save request has exactly
\* the container keys other than the bank, each with the sequence that
\* container has at the click, and no bank key.
C11_SavePayloadIsBoardWithoutBank ==
  [][saveRequested
       => LET data == Head(saveRequests').data
          IN  /\ DOMAIN data = (DOMAIN containers) \ {BANK_ID}
              /\ \A k \in DOMAIN data : data[k] = containers[k]
              /\ BANK_ID \notin DOMAIN data]_vars

\* Save was pressed on a board with an item in a tier and items in the bank.
C11_Witness ==
  /\ saveRequests # <<>>
  /\ \E k \in Range(TierIds) : Head(saveRequests).data[k] # <<>>
  /\ containers[BANK_ID] # <<>>
  /\ BANK_ID \notin DOMAIN Head(saveRequests).data

(***************************************************************************)
(* Save and load as a round trip.  The page shows a template's catalog,    *)
(* the user is signed in and has arranged the items by drags: every        *)
(* arrangement with each id in exactly one container is one that drops,    *)
(* which append, can build.  From there the user only saves and loads.     *)
(***************************************************************************)
SeqsUpTo(S, n) == UNION {[1..m -> S] : m \in 0..n}

\* The container states over the ids of its that hold each id exactly once.
Arrangements(its) ==
  {cs \in [ContainerIds -> SeqsUpTo(Range(its), Len(its))] :
     \A id \in Range(its) : occurrences(cs, id) = 1}

InitRoundTrip ==
  /\ \E t \in Range(TemplateIds) :
       /\ selectedTemplate = t
       /\ items = Catalog(t)
       /\ containers \in Arrangements(Catalog(t))
  /\ activeId = NoItem
  /\ dndActive = NoItem
  /\ lastOver = NoDrop
  /\ isCreatingTemplate = FALSE
  /\ filesToUpload = <<>>
  /\ creation = NoCreation
  /\ createdTemplates = 0
  /\ templateItems = {}
  /\ fileOutcomes = {}
  /\ lastResult = NoResult
  /\ toggleRequests = <<>>
  /\ deleteRequests = <<>>
  /\ templates = TemplateIds
  /\ templatesPending = FALSE
  /\ session = UserId
  /\ loadingSession = FALSE
  /\ itemFetches = [t \in Range(TemplateIds) |-> 0]
  /\ listFetches = [t \in Range(TemplateIds) |-> 0]
  /\ savedLists = <<>>
  /\ selectedSavedListId = NoList
  /\ isSavingList = FALSE
  /\ isLoadingList = FALSE
  /\ saveRequests = <<>>
  /\ loadRequests = <<>>
  /\ tierLists = <<>>
  /\ nEvents = 0

NextRoundTrip ==
  \/ handleSaveList
  \/ \E ok \in BOOLEAN : saveListResponse(ok)
  \/ handleLoadList
  \/ \E ok \in BOOLEAN : loadListResponse(ok)

RoundTrip == InitRoundTrip /\ [][NextRoundTrip]_vars

\* The bank of cs put in catalog order.
bankInCatalogOrder(cs, its) ==
  SelectSeq(its, LAMBDA id : id \in Range(cs[BANK_ID]))

\* C12: saving an exclusive and complete arrangement X and loading what was
\* saved, over the same tiers and catalog, gives every tier the sequence it
\* has in X and a bank with the same ids as X's bank.
C12_RoundTripKeepsTiersAndBankSet ==
  [][loadApplied
       => /\ \A k \in Range(TierIds) : containers'[k] = containers[k]
          /\ Range(containers'[BANK_ID]) = Range(containers[BANK_ID])]_vars

\* A saved arrangement that ranks a-2 before a-1 in one tier has been
\* loaded back.
C12_Witness ==
  /\ lastResult = [op |-> "load", applied |-> TRUE]
  /\ \E k \in Range(TierIds) : containers[k] = <<"a-2", "a-1">>
  /\ tierLists # <<>>

\* C13 as stated: loading the save-projection of X gives X itself, the order
\* of the bank included.
C13_RoundTripIsIdentity ==
  [][loadApplied => containers' = containers]_vars

\* C13 as amended: loading the save-projection of X gives X with its bank
\* put in catalog order, so it gives X itself exactly when X's bank already
\* is in catalog order.
C13_RoundTripSortsBank ==
  [][loadApplied
       => /\ containers' = [containers EXCEPT
                              ![BANK_ID] = bankInCatalogOrder(containers, items)]
          /\ (containers' = containers)
               <=> (containers[BANK_ID] = bankInCatalogOrder(containers, items))]_vars

\* A saved arrangement has been loaded back and both items of the catalog
\* are in the bank, in catalog order.
C13_Witness ==
  /\ lastResult = [op |-> "load", applied |-> TRUE]
  /\ items = Catalog("tA")
  /\ containers[BANK_ID] = Catalog("tA")

(***************************************************************************)
(* handleDragEnd on every event its signature admits.  Only drags happen;  *)
(* a drag may end on an id that is no key of containers (a stale           *)
(* reference), which the handler takes as the destination container.       *)
(***************************************************************************)
NextDragEvents ==
  \/ \E id \in AllItemIds : handleDragStart(id)
  \/ \E over \in ContainerIds \cup {NoOver, StaleContainerId} : dragEndEvent(over)
  \/ dragCancel

DragEvents == Init /\ [][NextDragEvents]_vars

\* The step is handleDragEnd with a destination id that is no key of the
\* container map.
staleDrop ==
  /\ lastOver' \notin (DOMAIN containers) \cup {NoOver, NoDrop, dndActive}
  /\ dragEndEvent(lastOver')

UrlTemplateId == "tA"
UrlListId == 1

\* The list the link names: a-2 ranked in tier-a.
sharedList ==
  [id |-> UrlListId, template_id |-> UrlTemplateId, user_id |-> UserId,
   updated_at |-> 1, is_public |-> FALSE,
   data |-> saveData(Put(resetContainers(<<"a-1">>), "tier-a", <<"a-2">>))]

InitUrl ==
  /\ items = initialItemIds
  /\ containers = resetContainers(initialItemIds)
  /\ activeId = NoItem
  /\ dndActive = NoItem
  /\ lastOver = NoDrop
  /\ isCreatingTemplate = FALSE
  /\ filesToUpload = <<>>
  /\ creation = NoCreation
  /\ createdTemplates = 0
  /\ templateItems = {}
  /\ fileOutcomes = {}
  /\ lastResult = NoResult
  /\ toggleRequests = <<>>
  /\ deleteRequests = <<>>
  /\ templates = <<>>
  /\ templatesPending = TRUE
  /\ selectedTemplate = NoTemplate
  /\ session = NoSession
  /\ loadingSession = TRUE
  /\ itemFetches = [t \in Range(TemplateIds) |-> 0]
  /\ listFetches = [t \in Range(TemplateIds) |-> 0]
  /\ savedLists = <<>>
  /\ selectedSavedListId = NoList
  /\ isSavingList = FALSE
  /\ isLoadingList = FALSE
  /\ saveRequests = <<>>
  /\ loadRequests = <<>>
  /\ tierLists = <<sharedList>>
  /\ nEvents = 0

\* The mount-time fetchTemplates resolves and, templates having changed, the
\* URL-parameter effect runs: it selects the template the link names, if the
\* templates hold it and it is not selected yet, and sets
\* selectedSavedListId to the list the link names; the effects keyed on
\* selectedTemplate follow.
urlFetchTemplatesResponse(ok) ==
  /\ templatesPending
  /\ templatesPending' = FALSE
  /\ templates' = IF ok THEN TemplateIds ELSE templates
  /\ IF ok /\ UrlTemplateId \in Range(TemplateIds) /\ selectedTemplate # UrlTemplateId
     THEN /\ selectedTemplate' = UrlTemplateId
          /\ runEffects(UrlTemplateId, session, TRUE, FALSE, UrlListId)
     ELSE UNCHANGED <<selectedTemplate, items, containers, itemFetches,
                      savedLists, listFetches, selectedSavedListId>>
  /\ lastOver' = NoDrop
  /\ lastResult' = NoResult
  /\ UNCHANGED creationVars
  /\ UNCHANGED <<toggleRequests, deleteRequests>>
  /\ UNCHANGED <<activeId, dndActive, session, loadingSession, isSavingList,
                 isLoadingList, saveRequests, loadRequests, tierLists, nEvents>>

\* The steps that need no user: responses arriving.
urlResponses ==
  \/ \E ok \in BOOLEAN : urlFetchTemplatesResponse(ok)
  \/ \E s \in {NoSession, UserId} : checkSession(s)
  \/ \E t \in Range(TemplateIds), ok \in BOOLEAN : loadItemsResponse(t, ok)
  \/ \E t \in Range(TemplateIds), ok \in BOOLEAN : fetchSavedListsResponse(t, ok)
  \/ \E ok \in BOOLEAN : loadListResponse(ok)

NextUrl ==
  \/ urlResponses
  \/ \E id \in AllItemIds : handleDragStart(id)
  \/ \E over \in ContainerIds \cup {NoOver} \cup AllItemIds : handleDragEnd(over)
  \/ dragCancel
  \/ \E id \in 0..MaxLists : selectSavedList(id)
  \/ handleLoadList

\* Every response arrives in the end; the user need not do anything.
UrlSpec == InitUrl /\ [][NextUrl]_vars /\ WF_vars(urlResponses)

\* The template of the link is selected, its catalog is loaded and the
\* owner of the list is signed in.
linkTemplateReady ==
  /\ UrlTemplateId \in Range(templates)
  /\ selectedTemplate = UrlTemplateId
  /\ items = Catalog(UrlTemplateId)
  /\ session = UserId

\* C15: opened from a link whose template exists, the page selects that
\* template and, once the template's data is there, brings the containers
\* to the arrangement of the list the link names, with no user action
\* needed: as long as the user has done nothing (nEvents = 0), the
\* arrangement gets loaded.
C15_LinkLoadsArrangement ==
  linkTemplateReady
    ~> \/ /\ selectedTemplate = UrlTemplateId
           /\ containers = loadedContainers(sharedList.data, Catalog(UrlTemplateId))
       \/ nEvents # 0

(***************************************************************************)
(* Properties of the page (specification Spec), continued.                 *)
(***************************************************************************)
\* C16: a move can put the item at a requested index of the destination:
\* from Scenario A (tier-a = [item-3], bank = [item-1, item-2, item-4,
\* item-5]), moving item-3 back to the bank at index 0 gives the bank
\* [item-3, item-1, item-2, item-4, item-5].  A DragEndEvent carries no
\* index, so the move is the drop of item-3 on the bank.
C16_MoveToRequestedIndex ==
  [][(/\ containers["tier-a"] = <<"item-3">>
      /\ containers[BANK_ID] = <<"item-1", "item-2", "item-4", "item-5">>
      /\ dndActive = "item-3"
      /\ dropOn(BANK_ID))
       => containers'[BANK_ID] = <<"item-3", "item-1", "item-2", "item-4", "item-5">>]_vars

\* The step is the continuation of a load request that failed: a network
\* error, a non-2xx answer, or an answer without data.
loadFailed ==
  loadRequests # <<>> /\ loadRequests' = <<>> /\ loadListResponse(FALSE)

\* C17: when loading a saved arrangement fails, the failure changes neither
\* the loaded items nor any container sequence.
C17_FailedLoadChangesNothing ==
  [][loadFailed => (items' = items /\ containers' = containers)]_vars

\* A load has just failed.
C17_Witness ==
  /\ lastResult = [op |-> "load", applied |-> FALSE]
  /\ loadRequests = <<>>
  /\ isLoadingList = FALSE

(***************************************************************************)
(* The tier-list routes on their own: requests by any caller, signed in    *)
(* or not, against the rows the server holds.  Each request is served in   *)
(* one step; lastResult records the request and the answer.                *)
(***************************************************************************)
\* rows the server may hold in the specification Server
MaxRows == 2

OtherUserId == "u2"
\* supabase.auth.getUser() of a request: no user, or one of two users
Callers == {NoSession, UserId, OtherUserId}
ListIds == 1..(MaxRows + 1)

\* the page's state, which no route touches
pageVars == <<items, containers, activeId, dndActive, lastOver, templates,
              templatesPending, selectedTemplate, session, loadingSession,
              itemFetches, listFetches, savedLists, selectedSavedListId,
              isSavingList, isLoadingList, saveRequests, loadRequests,
              toggleRequests, deleteRequests, isCreatingTemplate,
              filesToUpload, creation, createdTemplates, templateItems,
              fileOutcomes>>

\* checkOwnership accepting every user for a row that exists.
checkOwnershipOfAnyUser(listId, userId) ==
  \E i \in 1..Len(tierLists) : tierLists[i].id = listId

\* checkOwnership: the row with that id exists and is the user's.
checkOwnership(listId, userId) ==
  \E i \in 1..Len(tierLists) :
     tierLists[i].id = listId /\ tierLists[i].user_id = userId

\* .update(updatePayload).eq('id', listId): of the body only data and
\* is_public are taken.
updatedRow(row, body) ==
  [row EXCEPT !.data = IF "data" \in DOMAIN body THEN body.data ELSE @,
              !.is_public = IF "is_public" \in DOMAIN body THEN body.is_public ELSE @]

\* PUT /api/tier-lists/:id
putTierList(caller, id, body) ==
  IF caller = NoSession THEN [status |-> 401, rows |-> tierLists]
  ELSE IF ~checkOwnership(id, caller) THEN [status |-> 403, rows |-> tierLists]
  ELSE IF DOMAIN body \cap {"name", "data", "is_public"} = {}
  THEN [status |-> 400, rows |-> tierLists]
  ELSE [status |-> 200,
        rows |-> [i \in 1..Len(tierLists) |->
                    IF tierLists[i].id = id THEN updatedRow(tierLists[i], body)
                    ELSE tierLists[i]]]

\* DELETE /api/tier-lists/:id
deleteTierList(caller, id) ==
  IF caller = NoSession THEN [status |-> 401, rows |-> tierLists]
  ELSE IF ~checkOwnership(id, caller) THEN [status |-> 403, rows |-> tierLists]
  ELSE [status |-> 204, rows |-> SelectSeq(tierLists, LAMBDA r : r.id # id)]

\* POST /api/tier-lists
postTierList(caller, body) ==
  IF caller = NoSession THEN [status |-> 401, rows |-> tierLists]
  ELSE IF "template_id" \notin DOMAIN body \/ "data" \notin DOMAIN body
  THEN [status |-> 400, rows |-> tierLists]
  ELSE [status |-> 201, rows |-> Append(tierLists, insertedRow(caller, body))]

\* select('id, name, template_id, updated_at') of the public branch
publicSummary(row) == [id |-> row.id, template_id |-> row.template_id,
                       updated_at |-> row.updated_at]

\* GET /api/tier-lists?scope=public[&template_id=t]
listPublicTierLists(t) ==
  LET rows == SelectSeq(tierLists, LAMBDA r :
                r.is_public /\ (t # NoTemplate => r.template_id = t))
  IN  sortByUpdatedAtDesc([i \in 1..Len(rows) |-> publicSummary(rows[i])])

\* GET /api/tier-lists[?scope=...][&template_id=t]
getTierLists(caller, scope, t) ==
  IF scope = "public" THEN [status |-> 200, body |-> listPublicTierLists(t)]
  ELSE IF caller = NoSession THEN [status |-> 401, body |-> <<>>]
  ELSE [status |-> 200, body |-> listTierLists(caller, t)]

\* A request is served: the rows and the answer are those of the route.
served(op, caller, request, status, rows, body) ==
  /\ Len(rows) <= MaxRows
  /\ tierLists' = rows
  /\ lastResult' = [op |-> op, caller |-> caller, request |-> request,
                    status |-> status, body |-> body]
  /\ nEvents' = nEvents + 1
  /\ UNCHANGED pageVars

serverPut(caller, id, body) ==
  /\ nEvents < MaxEvents
  /\ LET r == putTierList(caller, id, body)
     IN  served("PUT", caller, [id |-> id, body |-> body], r.status, r.rows, <<>>)

serverDelete(caller, id) ==
  /\ nEvents < MaxEvents
  /\ LET r == deleteTierList(caller, id)
     IN  served("DELETE", caller, [id |-> id], r.status, r.rows, <<>>)

serverPost(caller, body) ==
  /\ nEvents < MaxEvents
  /\ LET r == postTierList(caller, body)
     IN  served("POST", caller, body, r.status, r.rows, <<>>)

serverGet(caller, scope, t) ==
  /\ nEvents < MaxEvents
  /\ LET r == getTierLists(caller, scope, t)
     IN  served("GET", caller, [scope |-> scope, template_id |-> t], r.status,
         tierLists, r.body)

\* GET /api/tier-lists/:id: 401 without a user; the row with that id and
\* the caller's user_id, or 404 when .single() finds none.
getTierListById(caller, id) ==
  IF caller = NoSession THEN [status |-> 401, body |-> <<>>]
  ELSE IF getTierList(caller, id) = <<>> THEN [status |-> 404, body |-> <<>>]
  ELSE [status |-> 200, body |-> getTierList(caller, id)]

serverGetById(caller, id) ==
  /\ nEvents < MaxEvents
  /\ LET r == getTierListById(caller, id)
     IN  served("GET by id", caller, [id |-> id], r.status, tierLists, r.body)

\* The arrangements a request body carries.
emptyTiers == saveData(resetContainers(<<>>))
PostBodies ==
  {[template_id |-> "tA"]}
  \cup {[template_id |-> t, data |-> emptyTiers, is_public |-> p] :
          t \in Range(TemplateIds), p \in BOOLEAN}
  \cup {[template_id |-> t, data |-> emptyTiers, is_public |-> p, user_id |-> u] :
          t \in Range(TemplateIds), p \in BOOLEAN, u \in {UserId, OtherUserId}}
PutBodies ==
  {<<>>, [data |-> sharedList.data]} \cup {[is_public |-> p] : p \in BOOLEAN}

NextServer ==
  \/ \E c \in Callers, id \in ListIds, b \in PutBodies : serverPut(c, id, b)
  \/ \E c \in Callers, id \in ListIds : serverDelete(c, id)
  \/ \E c \in Callers, b \in PostBodies : serverPost(c, b)
  \/ \E c \in Callers, scope \in {"public", "mine"},
        t \in Range(TemplateIds) \cup {NoTemplate} : serverGet(c, scope, t)
  \/ \E c \in Callers, id \in ListIds : serverGetById(c, id)

Server == Init /\ [][NextServer]_vars

rowIds(rows) == {rows[i].id : i \in 1..Len(rows)}

\* The rows of the state that the step changed or removed.
touchedRows == {r \in Range(tierLists) : r \notin Range(tierLists')}

\* C18: a stored tier list is changed (PUT) or removed (DELETE) only by a
\* request of its owner; such a request by another signed-in user, or for an
\* id no row has, is answered 403, one without a user 401, and both leave
\* the stored rows as they are.
C18_OnlyOwnerModifiesOrDeletes ==
  [][/\ \A r \in touchedRows :
          /\ lastResult'.op \in {"PUT", "DELETE"}
          /\ lastResult'.request.id = r.id
          /\ lastResult'.caller = r.user_id
     /\ lastResult'.op \in {"PUT", "DELETE"}
          => /\ lastResult'.caller = NoSession
                  => (lastResult'.status = 401 /\ tierLists' = tierLists)
             /\ (/\ lastResult'.caller # NoSession
                 /\ ~ \E r \in Range(tierLists) :
                        r.id = lastResult'.request.id /\ r.user_id = lastResult'.caller)
                  => (lastResult'.status = 403 /\ tierLists' = tierLists)]_vars

\* Another signed-in user has just asked to change a row that exists, and
\* got 403.
C18_Witness ==
  /\ lastResult.op = "PUT"
  /\ lastResult.status = 403
  /\ \E r \in Range(tierLists) :
        /\ r.id = lastResult.request.id
        /\ r.user_id # lastResult.caller
        /\ r.is_public = FALSE
        /\ lastResult.request.body = [is_public |-> TRUE]

\* C19: every row the save endpoint creates has the authenticated caller as
\* user_id, whatever the body says, and a save request without a user gets
\* 401 and creates no row.
C19_CreatedRowsBelongToCaller ==
  [][/\ \A r \in Range(tierLists') :
          r.id \notin rowIds(tierLists)
          => /\ lastResult'.op = "POST"
             /\ lastResult'.caller # NoSession
             /\ r.user_id = lastResult'.caller
     /\ (lastResult'.op = "POST" /\ lastResult'.caller = NoSession)
          => (lastResult'.status = 401 /\ tierLists' = tierLists)]_vars

\* A row has just been created by a request whose body names another user.
C19_Witness ==
  /\ lastResult.op = "POST"
  /\ lastResult.status = 201
  /\ "user_id" \in DOMAIN lastResult.request
  /\ lastResult.request.user_id # lastResult.caller
  /\ \E r \in Range(tierLists) :
        r.user_id = lastResult.caller /\ r.id = nextId(tierLists) - 1

\* The rows a template_id parameter t lets through.
ofTemplate(r, t) == t # NoTemplate => r.template_id = t

\* C20: a listing with scope public answers exactly the rows with is_public
\* true; any other listing answers exactly the caller's rows, or 401 and no
\* rows without a user; with template_id only rows of that template are
\* answered, in both scopes.
C20_ListingScopes ==
  [][lastResult'.op = "GET"
       => LET q == lastResult'.request
              answered == rowIds(lastResult'.body)
          IN  IF q.scope = "public"
              THEN /\ lastResult'.status = 200
                   /\ answered = {r.id : r \in {x \in Range(tierLists) :
                                      x.is_public /\ ofTemplate(x, q.template_id)}}
              ELSE IF lastResult'.caller = NoSession
              THEN lastResult'.status = 401 /\ lastResult'.body = <<>>
              ELSE /\ lastResult'.status = 200
                   /\ answered = {r.id : r \in {x \in Range(tierLists) :
                                      /\ x.user_id = lastResult'.caller
                                      /\ ofTemplate(x, q.template_id)}}]_vars

\* A public listing has just answered one of two stored rows and left the
\* other, which is private, out.
C20_Witness ==
  /\ lastResult.op = "GET"
  /\ lastResult.request.scope = "public"
  /\ Len(lastResult.body) = 1
  /\ Len(tierLists) = 2


(***************************************************************************)
(* Managing the saved lists: visibility and deletion.  The page is signed  *)
(* in with a template selected and its two saved lists fetched.            *)
(***************************************************************************)
\* prev.map(list => list.id === listId ? {...list, is_public: status} : list)
withVisibility(prev, listId, status) ==
  [i \in 1..Len(prev) |->
     IF prev[i].id = listId THEN [prev[i] EXCEPT !.is_public = status]
     ELSE prev[i]]

\* The visibility button is pressed: its onClick finds the selected list in
\* this render's savedLists and calls handleToggleListPublic(list.id,
\* !!list.is_public), which flips the local entry and sends the request.
handleToggleListPublic ==
  /\ nEvents < MaxEvents
  /\ saveLoadSection
  /\ savedLists # <<>>
  /\ selectedSavedListId # NoList
  /\ ~isLoadingList
  /\ \E i \in 1..Len(savedLists) :
       /\ savedLists[i].id = selectedSavedListId
       /\ savedLists' = withVisibility(savedLists, savedLists[i].id,
                                       ~savedLists[i].is_public)
       /\ toggleRequests' = Append(toggleRequests,
                                   [id |-> savedLists[i].id,
                                    currentStatus |-> savedLists[i].is_public])
  /\ nEvents' = nEvents + 1
  /\ lastOver' = NoDrop
  /\ lastResult' = NoResult
  /\ UNCHANGED creationVars
  /\ UNCHANGED <<items, containers, activeId, dndActive, templates,
                 templatesPending, selectedTemplate, session, loadingSession,
                 itemFetches, listFetches, selectedSavedListId, isSavingList,
                 isLoadingList, saveRequests, loadRequests, deleteRequests,
                 tierLists>>

\* PATCH /api/tier-lists/:id: the route exports GET, PUT and DELETE only,
\* so the framework answers 405 and no row changes.
patchTierList(caller, id, body) == [status |-> 405, rows |-> tierLists, body |-> <<>>]

\* savedLists after the continuation of handleToggleListPublic: with a 2xx
\* answer the entry is replaced by the answered list and the lists are
\* sorted; otherwise the entry is put back to currentStatus (in the !ok
\* branch and again in the catch block).
toggledLists(prev, req, ok, body) ==
  IF ok
  THEN sortByUpdatedAtDesc([i \in 1..Len(prev) |->
         IF prev[i].id = body.id THEN body ELSE prev[i]])
  ELSE withVisibility(withVisibility(prev, req.id, req.currentStatus),
                      req.id, req.currentStatus)

\* The i-th visibility request in flight resolves: the server answered it
\* (reachable) or the fetch failed before reaching it.
toggleListResponse(i, reachable) ==
  /\ i \in 1..Len(toggleRequests)
  /\ LET req == toggleRequests[i]
         r == patchTierList(session, req.id, [is_public |-> ~req.currentStatus])
         ok == reachable /\ r.status \in 200..299
     IN  /\ tierLists' = IF reachable THEN r.rows ELSE tierLists
         /\ savedLists' = toggledLists(savedLists, req, ok, r.body)
         /\ lastResult' = [op |-> "toggle", id |-> req.id,
                           requested |-> ~req.currentStatus,
                           reachable |-> reachable, alone |-> Len(toggleRequests) = 1]
  /\ toggleRequests' = spliceOut(toggleRequests, i)
  /\ lastOver' = NoDrop
  /\ UNCHANGED creationVars
  /\ UNCHANGED <<items, containers, activeId, dndActive, templates,
                 templatesPending, selectedTemplate, session, loadingSession,
                 itemFetches, listFetches, selectedSavedListId, isSavingList,
                 isLoadingList, saveRequests, loadRequests, deleteRequests,
                 nEvents>>

\* withoutList dropping the first list whatever the id.
withoutFirstList(prev, id) == Tail(prev)

\* savedLists after a successful delete: prev.filter(list => list.id !==
\* selectedSavedListId), with the id of the render in which Delete was
\* pressed.
withoutList(prev, id) == SelectSeq(prev, LAMBDA list : list.id # id)

\* The guard of handleDeleteList: !selectedSavedListId || !session?.user
\* returns.
deleteListValid == selectedSavedListId # NoList /\ session # NoSession

\* handleDeleteList run in the current render: it returns after a toast
\* when its guard fails and returns when the confirm dialog is declined;
\* else the request is sent.
deleteListEvent(confirmed) ==
  /\ IF deleteListValid
     THEN /\ isLoadingList' = (isLoadingList \/ confirmed)
          /\ deleteRequests' = IF confirmed THEN <<[id |-> selectedSavedListId]>>
                               ELSE deleteRequests
          /\ lastResult' = NoResult
     ELSE /\ UNCHANGED <<isLoadingList, deleteRequests>>
          /\ lastResult' = [op |-> "rejected", handler |-> "handleDeleteList"]
  /\ nEvents' = nEvents + 1
  /\ lastOver' = NoDrop
  /\ UNCHANGED creationVars
  /\ UNCHANGED <<items, containers, activeId, dndActive, templates,
                 templatesPending, selectedTemplate, session, loadingSession,
                 itemFetches, listFetches, savedLists, selectedSavedListId,
                 isSavingList, saveRequests, loadRequests, toggleRequests,
                 tierLists>>

\* The Delete button is pressed and the confirm dialog is answered.
handleDeleteList(confirmed) ==
  /\ nEvents < MaxEvents
  /\ listButtonsEnabled
  /\ deleteListEvent(confirmed)

\* The delete request resolves: the server answered it (reachable) or the
\* fetch failed.  On a 2xx answer the list leaves savedLists and the
\* selection is emptied; the busy flag is cleared either way.
deleteListResponse(reachable) ==
  /\ deleteRequests # <<>>
  /\ LET req == Head(deleteRequests)
         r == deleteTierList(session, req.id)
         ok == reachable /\ r.status \in 200..299
     IN  /\ tierLists' = IF reachable THEN r.rows ELSE tierLists
         /\ savedLists' = IF ok THEN withoutList(savedLists, req.id) ELSE savedLists
         /\ selectedSavedListId' = IF ok THEN NoList ELSE selectedSavedListId
         /\ lastResult' = [op |-> "delete", id |-> req.id, ok |-> ok]
  /\ deleteRequests' = <<>>
  /\ isLoadingList' = FALSE
  /\ lastOver' = NoDrop
  /\ UNCHANGED creationVars
  /\ UNCHANGED <<items, containers, activeId, dndActive, templates,
                 templatesPending, selectedTemplate, session, loadingSession,
                 itemFetches, listFetches, isSavingList, saveRequests,
                 loadRequests, toggleRequests, nEvents>>

\* The rows stored when the page opens: two lists of the user for the
\* selected template, the older one private, the newer one public.
storedLists ==
  << [id |-> 1, template_id |-> "tA", user_id |-> UserId, updated_at |-> 1,
      is_public |-> FALSE,
      data |-> saveData(Put(resetContainers(<<>>), "tier-a", <<"a-2">>))],
     [id |-> 2, template_id |-> "tA", user_id |-> UserId, updated_at |-> 2,
      is_public |-> TRUE,
      data |-> saveData(Put(resetContainers(<<>>), "tier-b", <<"a-1">>))] >>

InitListOps ==
  /\ items = Catalog("tA")
  /\ containers = resetContainers(Catalog("tA"))
  /\ activeId = NoItem
  /\ dndActive = NoItem
  /\ lastOver = NoDrop
  /\ isCreatingTemplate = FALSE
  /\ filesToUpload = <<>>
  /\ creation = NoCreation
  /\ createdTemplates = 0
  /\ templateItems = {}
  /\ fileOutcomes = {}
  /\ lastResult = NoResult
  /\ toggleRequests = <<>>
  /\ deleteRequests = <<>>
  /\ templates = TemplateIds
  /\ templatesPending = FALSE
  /\ selectedTemplate = "tA"
  /\ session = UserId
  /\ loadingSession = FALSE
  /\ itemFetches = [t \in Range(TemplateIds) |-> 0]
  /\ listFetches = [t \in Range(TemplateIds) |-> 0]
  /\ tierLists = storedLists
  /\ savedLists = listTierLists(UserId, "tA")
  /\ selectedSavedListId = NoList
  /\ isSavingList = FALSE
  /\ isLoadingList = FALSE
  /\ saveRequests = <<>>
  /\ loadRequests = <<>>
  /\ nEvents = 0

NextListOps ==
  \/ \E id \in rowIds(storedLists) \cup {NoList} : selectSavedList(id)
  \/ handleToggleListPublic
  \/ \E i \in 1..MaxEvents, reachable \in BOOLEAN : toggleListResponse(i, reachable)
  \/ \E confirmed \in BOOLEAN : handleDeleteList(confirmed)
  \/ \E reachable \in BOOLEAN : deleteListResponse(reachable)
  \/ handleLoadList
  \/ \E ok \in BOOLEAN : loadListResponse(ok)
  \/ authSignedOut
  \/ authSignedIn

ListOps == InitListOps /\ [][NextListOps]_vars

\* the entry of list id in a sequence of lists
entryOf(lists, id) == CHOOSE l \in Range(lists) : l.id = id

\* C21: when the only visibility request in flight is answered by the
\* server, the stored record's is_public is the requested value and the
\* local savedLists entry shows it.
C21_ToggleUpdatesRecordAndEntry ==
  [][(/\ lastResult'.op = "toggle"
      /\ lastResult'.reachable
      /\ lastResult'.alone
      /\ session = UserId
      /\ lastResult'.id \in rowIds(tierLists') \cap rowIds(savedLists'))
       => /\ entryOf(tierLists', lastResult'.id).is_public = lastResult'.requested
          /\ entryOf(savedLists', lastResult'.id).is_public = lastResult'.requested]_vars


\* C22: a drag start is taken only from Idle: whenever handleDragStart runs,
\* activeId is null, so no drag begins before the previous one has resolved
\* to Idle.
C22_DragStartsOnlyFromIdle ==
  [][(dndActive = NoItem /\ dndActive' # NoItem) => activeId = NoItem]_vars


(***************************************************************************)
(* The handlers called in any render.  The page offers the Save button     *)
(* only with a session and a template, and the Load and Delete buttons     *)
(* only with a selected list; here the handlers also run when their        *)
(* button is not offered, which is where their guards decide.              *)
(***************************************************************************)
InitHandlers ==
  /\ items = initialItemIds
  /\ containers = resetContainers(initialItemIds)
  /\ activeId = NoItem
  /\ dndActive = NoItem
  /\ lastOver = NoDrop
  /\ isCreatingTemplate = FALSE
  /\ filesToUpload = <<>>
  /\ creation = NoCreation
  /\ createdTemplates = 0
  /\ templateItems = {}
  /\ fileOutcomes = {}
  /\ lastResult = NoResult
  /\ toggleRequests = <<>>
  /\ deleteRequests = <<>>
  /\ templates = <<>>
  /\ templatesPending = TRUE
  /\ selectedTemplate = NoTemplate
  /\ session = NoSession
  /\ loadingSession = TRUE
  /\ itemFetches = [t \in Range(TemplateIds) |-> 0]
  /\ listFetches = [t \in Range(TemplateIds) |-> 0]
  /\ savedLists = <<>>
  /\ selectedSavedListId = NoList
  /\ isSavingList = FALSE
  /\ isLoadingList = FALSE
  /\ saveRequests = <<>>
  /\ loadRequests = <<>>
  /\ tierLists = storedLists
  /\ nEvents = 0

\* handleSaveList is called in a render without the Save / Load section.
callHandleSaveList ==
  /\ nEvents < MaxEvents
  /\ ~saveLoadSection
  /\ ~isSavingList
  /\ saveListEvent

\* handleLoadList is called in a render without an enabled Load button.
callHandleLoadList ==
  /\ nEvents < MaxEvents
  /\ (~saveLoadSection \/ savedLists = <<>> \/ selectedSavedListId = NoList)
  /\ ~isLoadingList
  /\ loadListEvent

\* handleDeleteList is called in a render without an enabled Delete button.
callHandleDeleteList(confirmed) ==
  /\ nEvents < MaxEvents
  /\ (~saveLoadSection \/ savedLists = <<>> \/ selectedSavedListId = NoList)
  /\ ~isLoadingList
  /\ deleteListEvent(confirmed)

NextHandlers ==
  \/ \E ok \in BOOLEAN : fetchTemplatesResponse(ok)
  \/ \E t \in Range(TemplateIds) \cup {NoTemplate} : selectTemplate(t)
  \/ \E t \in Range(TemplateIds), ok \in BOOLEAN : loadItemsResponse(t, ok)
  \/ \E s \in {NoSession, UserId} : checkSession(s)
  \/ authSignedIn
  \/ authSignedOut
  \/ \E t \in Range(TemplateIds), ok \in BOOLEAN : fetchSavedListsResponse(t, ok)
  \/ \E id \in rowIds(storedLists) \cup {NoList} : selectSavedList(id)
  \/ handleLoadList
  \/ \E ok \in BOOLEAN : loadListResponse(ok)
  \/ \E confirmed \in BOOLEAN : handleDeleteList(confirmed)
  \/ \E reachable \in BOOLEAN : deleteListResponse(reachable)
  \/ callHandleSaveList
  \/ callHandleLoadList
  \/ \E confirmed \in BOOLEAN : callHandleDeleteList(confirmed)

Handlers == InitHandlers /\ [][NextHandlers]_vars

\* a step puts a request in flight
sent(requests, requestsAfter) == requestsAfter # requests /\ requestsAfter # <<>>

\* C23: no step sends a save request from a render without a template or a
\* session, nor a load or delete request from a render without a selected
\* list or a session; and a handler call that its guard rejects changes no
\* container, saved list, selection, busy flag, request or stored row.
C23_RejectedCallsChangeNothing ==
  [][/\ (selectedTemplate = NoTemplate \/ session = NoSession)
          => ~sent(saveRequests, saveRequests')
     /\ (selectedSavedListId = NoList \/ session = NoSession)
          => (~sent(loadRequests, loadRequests') /\ ~sent(deleteRequests, deleteRequests'))
     /\ lastResult'.op = "rejected"
          => UNCHANGED <<items, containers, savedLists, selectedSavedListId,
                         selectedTemplate, session, isSavingList, isLoadingList,
                         saveRequests, loadRequests, deleteRequests,
                         toggleRequests, tierLists>>]_vars

\* Signed in with a template selected and its lists fetched, none chosen:
\* handleLoadList or handleDeleteList has just been called and rejected.
C23_Witness ==
  /\ lastResult.op = "rejected"
  /\ lastResult.handler \in {"handleLoadList", "handleDeleteList"}
  /\ session # NoSession
  /\ savedLists # <<>>
  /\ selectedSavedListId = NoList


(***************************************************************************)
(* Template creation.  handleCreateTemplate awaits the template POST, then *)
(* one upload per chosen file, then the batch POST of the items, then the  *)
(* refetch of the templates; creation holds where it stands.               *)
(***************************************************************************)
MaxFiles == 2

\* names of the files the user can choose
FileNames == {"f1", "f2", "f3"}

\* the ids the database gives the templates the page creates
CreatedTemplateIds == <<"tC1", "tC2", "tC3", "tC4", "tC5">>

\* What becomes of a file: uploaded and its public URL resolved, the upload
\* failed, or uploaded with no public URL.
Outcomes == {"resolved", "uploadError", "noUrl"}

\* urlData.publicUrl of a resolved file
publicUrl(templateId, file) == <<"template-images", templateId, file>>

\* the page state template creation leaves alone
notCreationVars == <<items, containers, activeId, dndActive, selectedTemplate,
                     session, loadingSession, templatesPending, itemFetches,
                     listFetches, savedLists, selectedSavedListId, isSavingList,
                     isLoadingList, saveRequests, loadRequests, toggleRequests,
                     deleteRequests, tierLists>>

\* onChange of the file input.
chooseFiles(files) ==
  /\ nEvents < MaxEvents
  /\ session # NoSession
  /\ files # filesToUpload
  /\ filesToUpload' = files
  /\ nEvents' = nEvents + 1
  /\ lastOver' = NoDrop
  /\ lastResult' = NoResult
  /\ UNCHANGED <<isCreatingTemplate, creation, createdTemplates, templateItems,
                 fileOutcomes, templates>>
  /\ UNCHANGED notCreationVars

\* The Create button is pressed, the name field filled (named) or not: the
\* handler returns after a toast without a name, files or session; else it
\* sends the template POST, keeping this render's files.
handleCreateTemplate(named) ==
  /\ nEvents < MaxEvents
  /\ session # NoSession
  /\ ~isCreatingTemplate
  /\ createdTemplates < Len(CreatedTemplateIds)
  /\ IF named /\ filesToUpload # <<>> /\ session # NoSession
     THEN /\ isCreatingTemplate' = TRUE
          /\ creation' = [pc |-> "template", files |-> filesToUpload]
          /\ lastResult' = NoResult
     ELSE /\ UNCHANGED <<isCreatingTemplate, creation>>
          /\ lastResult' = [op |-> "rejected", handler |-> "handleCreateTemplate"]
  /\ nEvents' = nEvents + 1
  /\ lastOver' = NoDrop
  /\ UNCHANGED <<filesToUpload, createdTemplates, templateItems, fileOutcomes,
                 templates>>
  /\ UNCHANGED notCreationVars

\* The template POST resolves: with the created template the upload loop
\* starts with the first file; otherwise the handler throws and ends.
createTemplateResponse(ok) ==
  /\ creation.pc = "template"
  /\ IF ok
     THEN /\ createdTemplates' = createdTemplates + 1
          /\ creation' = [pc |-> "upload",
                          templateId |-> CreatedTemplateIds[createdTemplates + 1],
                          files |-> creation.files, uploadedItems |-> <<>>]
          /\ UNCHANGED isCreatingTemplate
     ELSE /\ creation' = NoCreation
          /\ isCreatingTemplate' = FALSE
          /\ UNCHANGED createdTemplates
  /\ lastOver' = NoDrop
  /\ lastResult' = NoResult
  /\ UNCHANGED <<filesToUpload, templateItems, fileOutcomes, templates, nEvents>>
  /\ UNCHANGED notCreationVars

\* uploadedItems registering a placeholder for a file without a public URL.
withUploadedOrPlaceholder(uploadedItems, templateId, file, outcome) ==
  Append(uploadedItems,
         [templateId |-> templateId, name |-> file,
          imageUrl |-> IF outcome = "resolved" THEN publicUrl(templateId, file)
                       ELSE <<"placeholder">>])

\* uploadedItems after the loop body for a file that was uploaded: pushed
\* with its public URL, or skipped (continue) when there is none.
withUploaded(uploadedItems, templateId, file, outcome) ==
  IF outcome = "resolved"
  THEN Append(uploadedItems, [templateId |-> templateId, name |-> file,
                              imageUrl |-> publicUrl(templateId, file)])
  ELSE uploadedItems

\* The upload of the next file resolves.  An upload error throws and ends
\* the handler; else the loop goes on, and after the last file the batch
\* POST is sent if uploadedItems is not empty, else the name and the files
\* are cleared and the templates are refetched.
uploadResponse(outcome) ==
  /\ creation.pc = "upload"
  /\ LET file == Head(creation.files)
         uploaded == withUploaded(creation.uploadedItems, creation.templateId,
                                  file, outcome)
     IN  /\ fileOutcomes' = fileOutcomes \cup
                {[templateId |-> creation.templateId, name |-> file,
                  outcome |-> outcome]}
         /\ IF outcome = "uploadError"
            THEN /\ creation' = NoCreation
                 /\ isCreatingTemplate' = FALSE
                 /\ UNCHANGED filesToUpload
            ELSE IF Tail(creation.files) # <<>>
            THEN /\ creation' = [creation EXCEPT !.files = Tail(@),
                                                 !.uploadedItems = uploaded]
                 /\ UNCHANGED <<isCreatingTemplate, filesToUpload>>
            ELSE IF uploaded # <<>>
            THEN /\ creation' = [pc |-> "batch", uploadedItems |-> uploaded]
                 /\ UNCHANGED <<isCreatingTemplate, filesToUpload>>
            ELSE /\ creation' = [pc |-> "refresh"]
                 /\ filesToUpload' = <<>>
                 /\ UNCHANGED isCreatingTemplate
  /\ lastOver' = NoDrop
  /\ lastResult' = NoResult
  /\ UNCHANGED <<createdTemplates, templateItems, templates, nEvents>>
  /\ UNCHANGED notCreationVars

\* POST /api/items/batch: 400 for an empty array or an item without
\* templateId, imageUrl or name; else every item is inserted.
postItemsBatch(payload) ==
  IF payload = <<>> \/ \E i \in 1..Len(payload) :
        payload[i].templateId = "" \/ payload[i].imageUrl = <<>> \/ payload[i].name = ""
  THEN [status |-> 400, rows |-> templateItems]
  ELSE [status |-> 201, rows |-> templateItems \cup Range(payload)]

\* The batch POST resolves: answered by the route (reachable) or failed.
\* On 2xx the name and the files are cleared and the templates are
\* refetched; otherwise the handler throws and ends.
batchResponse(reachable) ==
  /\ creation.pc = "batch"
  /\ LET r == postItemsBatch(creation.uploadedItems)
         ok == reachable /\ r.status \in 200..299
     IN  /\ templateItems' = IF reachable THEN r.rows ELSE templateItems
         /\ IF ok
            THEN /\ creation' = [pc |-> "refresh"]
                 /\ filesToUpload' = <<>>
                 /\ UNCHANGED isCreatingTemplate
            ELSE /\ creation' = NoCreation
                 /\ isCreatingTemplate' = FALSE
                 /\ UNCHANGED filesToUpload
  /\ lastOver' = NoDrop
  /\ lastResult' = NoResult
  /\ UNCHANGED <<createdTemplates, fileOutcomes, templates, nEvents>>
  /\ UNCHANGED notCreationVars

\* The refetch of /api/templates resolves with the templates the server
\* now holds, or rejects; the handler ends.
refreshResponse(ok) ==
  /\ creation.pc = "refresh"
  /\ templates' = IF ok THEN TemplateIds \o SubSeq(CreatedTemplateIds, 1, createdTemplates)
                  ELSE templates
  /\ creation' = NoCreation
  /\ isCreatingTemplate' = FALSE
  /\ lastOver' = NoDrop
  /\ lastResult' = NoResult
  /\ UNCHANGED <<filesToUpload, createdTemplates, templateItems, fileOutcomes,
                 nEvents>>
  /\ UNCHANGED notCreationVars

\* The file selections: up to MaxFiles different files, or none.
FileSelections ==
  {fs \in SeqsUpTo(FileNames, MaxFiles) :
     \A i, j \in 1..Len(fs) : i # j => fs[i] # fs[j]}

InitCreateTemplate ==
  /\ items = initialItemIds
  /\ containers = resetContainers(initialItemIds)
  /\ activeId = NoItem
  /\ dndActive = NoItem
  /\ lastOver = NoDrop
  /\ lastResult = NoResult
  /\ toggleRequests = <<>>
  /\ deleteRequests = <<>>
  /\ templates = TemplateIds
  /\ templatesPending = FALSE
  /\ selectedTemplate = NoTemplate
  /\ session = UserId
  /\ loadingSession = FALSE
  /\ itemFetches = [t \in Range(TemplateIds) |-> 0]
  /\ listFetches = [t \in Range(TemplateIds) |-> 0]
  /\ savedLists = <<>>
  /\ selectedSavedListId = NoList
  /\ isSavingList = FALSE
  /\ isLoadingList = FALSE
  /\ saveRequests = <<>>
  /\ loadRequests = <<>>
  /\ tierLists = <<>>
  /\ isCreatingTemplate = FALSE
  /\ filesToUpload = <<>>
  /\ creation = NoCreation
  /\ createdTemplates = 0
  /\ templateItems = {}
  /\ fileOutcomes = {}
  /\ nEvents = 0

NextCreateTemplate ==
  \/ \E files \in FileSelections : chooseFiles(files)
  \/ \E named \in BOOLEAN : handleCreateTemplate(named)
  \/ \E ok \in BOOLEAN : createTemplateResponse(ok)
  \/ \E outcome \in Outcomes : uploadResponse(outcome)
  \/ \E reachable \in BOOLEAN : batchResponse(reachable)
  \/ \E ok \in BOOLEAN : refreshResponse(ok)

CreateTemplate == InitCreateTemplate /\ [][NextCreateTemplate]_vars

\* C24: every registered item record is of a file of its creation that was
\* uploaded and whose public URL was resolved, and carries that URL; no
\* record exists for a file whose upload failed or whose URL is missing.
C24_OnlyResolvedFilesAreRegistered ==
  \A item \in templateItems :
     /\ [templateId |-> item.templateId, name |-> item.name,
         outcome |-> "resolved"] \in fileOutcomes
     /\ item.imageUrl = publicUrl(item.templateId, item.name)

\* A partial failure: one creation registered a file and skipped another
\* that had no public URL.
C24_Witness ==
  \E item \in templateItems, o \in fileOutcomes :
     /\ o.templateId = item.templateId
     /\ o.outcome = "noUrl"
     /\ o.name # item.name


(***************************************************************************)
(* Loading what the server stores.  The routes take any data for a list    *)
(* (POST and PUT do not look into it), so the owner's requests can store   *)
(* any tier-to-ids mapping before the page loads the list.                 *)
(***************************************************************************)
\* tier-to-ids mappings a request body can carry: two tiers, with ids of
\* this template and of the other one, repeated or not
StoredData ==
  {[k \in {"tier-a", "tier-b"} |-> IF k = "tier-a" THEN a ELSE b] :
     a \in SeqsUpTo({"a-1", "b-1"}, 2), b \in SeqsUpTo({"a-1"}, 1)}

NextLoadStored ==
  \/ \E d \in StoredData, id \in rowIds(storedLists) :
        serverPut(UserId, id, [data |-> d])
  \/ \E id \in rowIds(storedLists) \cup {NoList} : selectSavedList(id)
  \/ handleLoadList
  \/ \E ok \in BOOLEAN : loadListResponse(ok)

LoadStored == InitListOps /\ [][NextLoadStored]_vars

\* C25: after handleLoadList has applied a returned arrangement, every id
\* in a tier is a currently loaded item id and no id occurs twice in the
\* tiers, whatever data was stored.
C25_LoadedTiersAreValid ==
  [][(lastResult'.op = "load" /\ lastResult'.applied)
       => LET tiersOnly == [k \in Range(TierIds) |-> containers'[k]]
          IN  \A id \in containedIds(tiersOnly) :
                 /\ id \in Range(items')
                 /\ occurrences(tiersOnly, id) = 1]_vars


\* C26: a load-by-id response that arrives after the item catalog was
\* replaced or the selected template was changed is not applied: the
\* containers stay as the newer catalog left them.
C26_StaleLoadIsNotApplied ==
  [][(/\ loadRequests # <<>>
      /\ lastResult'.op = "load"
      /\ \/ Head(loadRequests).items # items
         \/ \E i \in 1..Len(tierLists) :
               /\ tierLists[i].id = Head(loadRequests).id
               /\ tierLists[i].template_id # selectedTemplate)
       => containers' = containers]_vars


(***************************************************************************)
(* The page opened from a link, with the user changing the selection.  The *)
(* URL effect is keyed on [templates, searchParams, selectedTemplate]: it  *)
(* runs again after every render in which selectedTemplate has changed,    *)
(* and its setState calls take effect in the render that follows, before   *)
(* any other event is handled.                                             *)
(***************************************************************************)
\* The URL effect has a selection to make: the templates are there, they
\* hold the template of the link and it is not the selected one.
urlEffectPending ==
  /\ templates # <<>>
  /\ UrlTemplateId \in Range(templates)
  /\ selectedTemplate # UrlTemplateId

\* The render after the URL effect has called setSelectedTemplate and
\* setSelectedSavedListId, with the effects keyed on selectedTemplate.
urlEffect ==
  /\ urlEffectPending
  /\ selectedTemplate' = UrlTemplateId
  /\ runEffects(UrlTemplateId, session, TRUE, FALSE, UrlListId)
  /\ lastOver' = NoDrop
  /\ lastResult' = NoResult
  /\ UNCHANGED creationVars
  /\ UNCHANGED <<activeId, dndActive, templates, templatesPending, session,
                 loadingSession, isSavingList, isLoadingList, saveRequests,
                 loadRequests, toggleRequests, deleteRequests, tierLists,
                 nEvents>>

\* a user or browser event, or a response, handled once the renders the
\* effects have asked for are done
urlIdle == ~urlEffectPending

NextUrlSelect ==
  \/ urlEffect
  \/ urlIdle /\ \E ok \in BOOLEAN : urlFetchTemplatesResponse(ok)
  \/ urlIdle /\ \E s \in {NoSession, UserId} : checkSession(s)
  \/ urlIdle /\ \E t \in Range(TemplateIds), ok \in BOOLEAN : loadItemsResponse(t, ok)
  \/ urlIdle /\ \E t \in Range(TemplateIds), ok \in BOOLEAN : fetchSavedListsResponse(t, ok)
  \/ urlIdle /\ \E t \in Range(TemplateIds) \cup {NoTemplate} : selectTemplate(t)
  \/ urlIdle /\ authSignedIn
  \/ urlIdle /\ authSignedOut

UrlSelect == InitUrl /\ [][NextUrlSelect]_vars

\* C27: once the templates have arrived and the template of the link has
\* been pre-selected, the selection becomes the link's template again only
\* by a user's choice of it (an event): another choice, the empty choice
\* and the reset at sign-out stay in effect.
C27_UrlTemplateConsumedOnce ==
  [][(/\ templates # <<>>
      /\ selectedTemplate # UrlTemplateId
      /\ selectedTemplate' = UrlTemplateId)
       => nEvents' = nEvents + 1]_vars


\* C28: a signed-in user who asks for a public list by id gets its data,
\* whether they own it or not.
C28_PublicListIsFetchableById ==
  [][(/\ lastResult'.op = "GET by id"
      /\ lastResult'.caller # NoSession
      /\ \E i \in 1..Len(tierLists) :
            tierLists[i].id = lastResult'.request.id /\ tierLists[i].is_public)
       => /\ lastResult'.status = 200
          /\ \E i \in 1..Len(tierLists) :
                /\ tierLists[i].id = lastResult'.request.id
                /\ lastResult'.body = <<tierLists[i]>>]_vars


\* C29: every visibility request fails (the route answers none with 2xx),
\* so once none is in flight each local entry shows the is_public it had
\* before the first toggle, which is the one the lists were fetched with.
C29_FailedTogglesRestoreVisibility ==
  toggleRequests = <<>>
    => \A i \in 1..Len(savedLists) :
          savedLists[i].id \in rowIds(storedLists)
            => savedLists[i].is_public = entryOf(storedLists, savedLists[i].id).is_public


\* C30: when a delete request succeeds, savedLists afterwards holds no list
\* of the requested id and every other list it held, in the same order,
\* and the selected list id is empty; when it fails, savedLists and the
\* selected list id are as before.
C30_DeleteRemovesOnlyTheList ==
  [][lastResult'.op = "delete"
       => IF lastResult'.ok
          THEN /\ \A i \in 1..Len(savedLists') : savedLists'[i].id # lastResult'.id
               /\ \A i \in 1..Len(savedLists) :
                     savedLists[i].id # lastResult'.id
                       => \E j \in 1..Len(savedLists') : savedLists'[j] = savedLists[i]
               /\ \A i, j \in 1..Len(savedLists') :
                     i < j => \E a, b \in 1..Len(savedLists) :
                                /\ a < b
                                /\ savedLists[a] = savedLists'[i]
                                /\ savedLists[b] = savedLists'[j]
               /\ Len(savedLists') <= Len(savedLists)
               /\ selectedSavedListId' = NoList
          ELSE /\ savedLists' = savedLists
               /\ selectedSavedListId' = selectedSavedListId]_vars

\* The older of the two lists has just been deleted: the newer one is
\* still listed and nothing is selected.
C30_Witness ==
  /\ lastResult.op = "delete"
  /\ lastResult.ok
  /\ lastResult.id = 1
  /\ rowIds(savedLists) = {2}
  /\ rowIds(tierLists) = {2}
  /\ selectedSavedListId = NoList
  /\ ~isLoadingList


\* The step is the continuation of a save request.
saveResolved == saveRequests # <<>> /\ saveRequests' = <<>>

\* C31: when a save succeeds, savedLists afterwards holds the returned list
\* exactly once, is ordered by updated_at descending, and the returned list
\* is the selected one; when it fails, savedLists, the selected list id and
\* the containers are as before.
C31_SaveUpdatesSavedLists ==
  [][saveResolved
       => IF tierLists' # tierLists
          THEN LET saved == tierLists'[Len(tierLists')]
               IN  /\ Cardinality({i \in 1..Len(savedLists') :
                                     savedLists'[i].id = saved.id}) = 1
                   /\ \E i \in 1..Len(savedLists') : savedLists'[i] = saved
                   /\ \A i, j \in 1..Len(savedLists') :
                         i < j => savedLists'[i].updated_at >= savedLists'[j].updated_at
                   /\ selectedSavedListId' = saved.id
                   /\ containers' = containers
          ELSE /\ savedLists' = savedLists
               /\ selectedSavedListId' = selectedSavedListId
               /\ containers' = containers]_vars

\* A second list has been saved: it stands before the first one and is the
\* selected one.
C31_Witness ==
  /\ Len(savedLists) = 2
  /\ Len(tierLists) = 2
  /\ savedLists[1] = tierLists[2]
  /\ savedLists[2].id = tierLists[1].id
  /\ selectedSavedListId = tierLists[2].id
  /\ saveRequests = <<>>
  /\ ~isSavingList


\* No request is in flight and no handler is between two awaits.
settled ==
  /\ ~templatesPending
  /\ ~loadingSession
  /\ \A t \in Range(TemplateIds) : itemFetches[t] = 0 /\ listFetches[t] = 0
  /\ saveRequests = <<>>
  /\ loadRequests = <<>>
  /\ toggleRequests = <<>>
  /\ deleteRequests = <<>>
  /\ creation = NoCreation

\* The step is a SIGNED_OUT event of a signed-in page.
signedOutStep == ~loadingSession /\ session # NoSession /\ session' = NoSession

\* C32: a SIGNED_OUT event that finds nothing in flight, and so is settled
\* as soon as its effects have run, leaves no template selected, the static
\* board (tiers empty, bank = item-1..item-5), no saved lists and no
\* selected list.
C32_SignOutResetsThePage ==
  [][(signedOutStep /\ settled /\ settled')
       => /\ selectedTemplate' = NoTemplate
          /\ items' = initialItemIds
          /\ containers' = resetContainers(initialItemIds)
          /\ savedLists' = <<>>
          /\ selectedSavedListId' = NoList]_vars


(***************************************************************************)
(* Drags on the freshly reset board: only drag starts, drops on the        *)
(* page's drop targets and cancels happen; no template is selected and no  *)
(* list is loaded.                                                         *)
(***************************************************************************)
NextDrags ==
  \/ \E id \in AllItemIds : handleDragStart(id)
  \/ \E over \in ContainerIds \cup {NoOver} : handleDragEnd(over)
  \/ dragCancel

Drags == Init /\ [][NextDrags]_vars

\* C33: from the freshly reset board, with no template switch or load,
\* after any sequence of drag starts, drops and cancels each loaded item id
\* occurs exactly once across all containers, and the keys of containers
\* are exactly the five tier ids and the bank id.
C33_DragsKeepItemsAndKeys ==
  /\ DOMAIN containers = ContainerIds
  /\ \A id \in Range(items) : occurrences(containers, id) = 1

\* Three drops have happened, the last one of item-3 on the bank it was
\* in already.
C33_Witness ==
  /\ dndActive = NoItem
  /\ lastOver = BANK_ID
  /\ containers["tier-s"] = <<"item-1">>
  /\ containers["tier-a"] = <<"item-2">>
  /\ containers[BANK_ID] = <<"item-4", "item-5", "item-3">>


(***************************************************************************)
(* The earlier page (src/unnamed/part_000): its handleDragEnd inserts the  *)
(* item at the index of the element dropped on.  Only drags happen.        *)
(***************************************************************************)
\* seq.splice(i, 0, x) with the 0-based index i
spliceIn(seq, i, x) == SubSeq(seq, 1, i) \o <<x>> \o SubSeq(seq, i + 1, Len(seq))

\* The setContainers updater of the earlier handleDragEnd: activeItems and
\* overItems are copies taken before the removal; the source is written
\* first and the destination second.
moveItemAtIndex(prev, activeContainerId, overContainerId, active, over) ==
  LET activeItems == IF activeContainerId \in DOMAIN prev
                     THEN prev[activeContainerId] ELSE <<>>
      overItems == IF overContainerId \in DOMAIN prev
                   THEN prev[overContainerId] ELSE <<>>
      activeIndex == findIndex(activeItems, active)
      overIndex == findIndex(overItems, over)
      removed == IF activeIndex # 0 THEN spliceOut(activeItems, activeIndex)
                 ELSE activeItems
      insertIndex == IF overIndex # 0 THEN overIndex - 1 ELSE Len(overItems)
  IN  Put(Put(prev, activeContainerId, removed),
          overContainerId, spliceIn(overItems, insertIndex, active))

\* The containers state after the earlier handleDragEnd({active, over}).
dragEndContainersAtIndex(cs, active, over) ==
  IF over # NoOver /\ active # over
  THEN LET activeContainerId == findContainer(cs, active)
       IN  IF activeContainerId = NoContainer THEN cs
           ELSE moveItemAtIndex(cs, activeContainerId, over, active, over)
  ELSE cs

\* The earlier handleDragEnd, run on a drop on one of the page's drop
\* targets.
handleDragEndAtIndex(over) ==
  /\ dndActive # NoItem
  /\ over \in dropTargets(dndActive)
  /\ activeId' = NoItem
  /\ dndActive' = NoItem
  /\ containers' = dragEndContainersAtIndex(containers, dndActive, over)
  /\ lastOver' = over
  /\ lastResult' = NoResult
  /\ UNCHANGED <<items, nEvents>>
  /\ UNCHANGED otherVars

NextDragsAtIndex ==
  \/ \E id \in AllItemIds : handleDragStart(id)
  \/ \E over \in ContainerIds \cup {NoOver} : handleDragEndAtIndex(over)
  \/ dragCancel

DragsAtIndex == Init /\ [][NextDragsAtIndex]_vars

\* C34: after any drop handled by the insert-at-index handler every item
\* id occurs at most once across all container sequences, also when the
\* drop target is the container the item is in already.
C34_InsertAtIndexKeepsItemsOnce ==
  \A id \in AllItemIds : occurrences(containers, id) <= 1


\* C35: a drop of a dragged item that is in no container at drop time (the
\* catalog was replaced while the drag was in progress) leaves the
\* container map unchanged; the item is not inserted into the drop target.
C35_DropOfUnplacedItemChangesNothing ==
  [][(dropOnContainer /\ findContainer(containers, dndActive) = NoContainer)
       => containers' = containers]_vars

\* A drop on tier-a has just left tier-a empty: the dragged item, one of
\* the static ids, was in no container of template tA's freshly reset
\* board.
C35_Witness ==
  /\ lastOver = "tier-a"
  /\ items = Catalog("tA")
  /\ containers = resetContainers(Catalog("tA"))


\* The step is a run of handleSaveList that sends its request.
saveSent == saveRequests = <<>> /\ saveRequests' # <<>>

\* C36: every arrangement handleSaveList hands to persistence contains
\* only item ids of the catalog of the template id it is saved under, also
\* when Save is pressed while the catalog fetch of a newly selected
\* template is pending.
C36_SavedIdsAreOfTheSavedTemplate ==
  [][saveSent
       => containedIds(saveRequests'[1].data)
            \subseteq Range(Catalog(saveRequests'[1].template_id))]_vars


\* The step is the continuation of a saved-list fetch, and no saved-list
\* fetch is pending after it.
lastListFetchResolved ==
  /\ \E t \in Range(TemplateIds) : listFetches'[t] < listFetches[t]
  /\ \A t \in Range(TemplateIds) : listFetches'[t] = 0

\* savedLists holds only lists of the selected template, and none when no
\* template is selected or nobody is signed in.
savedListsAreOfSelection ==
  IF selectedTemplate = NoTemplate \/ session = NoSession
  THEN savedLists = <<>>
  ELSE \A i \in 1..Len(savedLists) : savedLists[i].template_id = selectedTemplate

\* C37: once all saved-list fetches have resolved, savedLists contains only
\* lists of the currently selected template and is empty when no template
\* is selected or nobody is signed in, also when the template was switched
\* while an earlier saved-list fetch was pending.
C37_SavedListsAreOfSelectedTemplate ==
  [][lastListFetchResolved => savedListsAreOfSelection']_vars


(***************************************************************************)
(* The busy flags.  A signed-in user with template tA selected and its     *)
(* catalog loaded saves, loads and deletes lists and creates templates;    *)
(* every request that is sent is eventually answered.                      *)
(***************************************************************************)
InitBusy ==
  /\ items = Catalog("tA")
  /\ containers = resetContainers(Catalog("tA"))
  /\ activeId = NoItem
  /\ dndActive = NoItem
  /\ lastOver = NoDrop
  /\ lastResult = NoResult
  /\ toggleRequests = <<>>
  /\ deleteRequests = <<>>
  /\ templates = TemplateIds
  /\ templatesPending = FALSE
  /\ selectedTemplate = "tA"
  /\ session = UserId
  /\ loadingSession = FALSE
  /\ itemFetches = [t \in Range(TemplateIds) |-> 0]
  /\ listFetches = [t \in Range(TemplateIds) |-> 0]
  /\ savedLists = <<>>
  /\ selectedSavedListId = NoList
  /\ isSavingList = FALSE
  /\ isLoadingList = FALSE
  /\ saveRequests = <<>>
  /\ loadRequests = <<>>
  /\ tierLists = <<>>
  /\ isCreatingTemplate = FALSE
  /\ filesToUpload = <<>>
  /\ creation = NoCreation
  /\ createdTemplates = 0
  /\ templateItems = {}
  /\ fileOutcomes = {}
  /\ nEvents = 0

\* the continuations of handleSaveList, of handleLoadList and of
\* handleCreateTemplate
saveResponses == \E ok \in BOOLEAN : saveListResponse(ok)
loadResponses == \E ok \in BOOLEAN : loadListResponse(ok)
creationResponses ==
  \/ \E ok \in BOOLEAN : createTemplateResponse(ok)
  \/ \E outcome \in Outcomes : uploadResponse(outcome)
  \/ \E reachable \in BOOLEAN : batchResponse(reachable)
  \/ \E ok \in BOOLEAN : refreshResponse(ok)

NextBusy ==
  \/ \E id \in 1..MaxLists \cup {NoList} : selectSavedList(id)
  \/ handleSaveList
  \/ saveResponses
  \/ handleLoadList
  \/ loadResponses
  \/ \E confirmed \in BOOLEAN : handleDeleteList(confirmed)
  \/ \E reachable \in BOOLEAN : deleteListResponse(reachable)
  \/ \E files \in FileSelections : chooseFiles(files)
  \/ \E named \in BOOLEAN : handleCreateTemplate(named)
  \/ creationResponses

Busy ==
  /\ InitBusy
  /\ [][NextBusy]_vars
  /\ WF_vars(saveResponses)
  /\ WF_vars(loadResponses)
  /\ WF_vars(\E reachable \in BOOLEAN : deleteListResponse(reachable))
  /\ WF_vars(creationResponses)

\* C38: every run of handleSaveList, handleLoadList or handleCreateTemplate
\* that sets its busy flag eventually clears it, whether its requests
\* succeed, answer with an error status or throw, provided every request
\* is eventually answered.
C38_BusyFlagsAreCleared ==
  /\ isSavingList ~> ~isSavingList
  /\ isLoadingList ~> ~isLoadingList
  /\ isCreatingTemplate ~> ~isCreatingTemplate

\* A creation has ended by the throw of a failed upload and a save has
\* ended by storing its row, and both flags are clear.
C38_Witness ==
  /\ ~isCreatingTemplate
  /\ creation = NoCreation
  /\ \E o \in fileOutcomes : o.outcome = "uploadError"
  /\ ~isSavingList
  /\ saveRequests = <<>>
  /\ Len(tierLists) = 1


(***************************************************************************)
(* The setContainers updater of handleDragEnd on its own.  The handler     *)
(* resolves the source container in the containers of the render it closes *)
(* over, the updater runs on the containers state of the moment, and the   *)
(* two differ when another update came in between: the updater is run     *)
(* with every container as the resolved source.                            *)
(***************************************************************************)
\* handleDragEnd dropping on the container over, its render having found
\* the dragged item in activeContainerId.
handleDragEndFrom(activeContainerId, over) ==
  /\ dndActive # NoItem
  /\ activeId' = NoItem
  /\ dndActive' = NoItem
  /\ containers' = moveItem(containers, activeContainerId, over, dndActive)
  /\ lastOver' = over
  /\ lastResult' = [op |-> "drop", source |-> activeContainerId,
                    inSource |-> findIndex(containers[activeContainerId], dndActive) # 0]
  /\ UNCHANGED <<items, nEvents>>
  /\ UNCHANGED otherVars

NextDragUpdater ==
  \/ \E id \in AllItemIds : handleDragStart(id)
  \/ \E activeContainerId, over \in ContainerIds :
        handleDragEndFrom(activeContainerId, over)
  \/ dragCancel

DragUpdater == Init /\ [][NextDragUpdater]_vars

\* C39: when the dragged item is not in the resolved source container as
\* the updater runs but is in another container, the fallback scan removes
\* it from that container before it is appended to the destination: the
\* item occurs exactly once afterwards, as the last id of the destination,
\* and the other ids stay where they are.
C39_FallbackScanRemovesTheItem ==
  [][(/\ dndActive # NoItem
      /\ lastResult' # NoResult
      /\ ~lastResult'.inSource
      /\ handleDragEndFrom(lastResult'.source, lastOver')
      /\ \E k \in ContainerIds \ {lastResult'.source} :
            findIndex(containers[k], dndActive) # 0)
       => /\ occurrences(containers', dndActive) = 1
          /\ containers'[lastOver'] # <<>>
          /\ containers'[lastOver'][Len(containers'[lastOver'])] = dndActive
          /\ \A k \in ContainerIds :
               SelectSeq(containers'[k], LAMBDA x : x # dndActive)
                 = SelectSeq(containers[k], LAMBDA x : x # dndActive)]_vars

\* item-1, which was in the bank, has just been dropped on tier-b by a handler
\* that had resolved tier-a as its source.
C39_Witness ==
  /\ lastResult = [op |-> "drop", source |-> "tier-a", inSource |-> FALSE]
  /\ lastOver = "tier-b"
  /\ containers["tier-s"] = <<>>
  /\ containers["tier-a"] = <<>>
  /\ containers["tier-b"] = <<"item-1">>
  /\ containers[BANK_ID] = <<"item-2", "item-3", "item-4", "item-5">>
====
